---- MODULE Spec2Model ----
(***************************************************************************)
(* Environment configuration resolution, validation and stack composition  *)
(* of the Options Strategy Lifecycle Platform CDK application.             *)
(*                                                                         *)
(*   config/environments.py        configuration schema, presets,          *)
(*                                 get_environment_config and              *)
(*                                 validate_environment_config             *)
(*   app.py                        main entry point and validation gate    *)
(*   infrastructure/app.py         comprehensive single stack              *)
(*   infrastructure/stacks/*.py    modular stacks                          *)
(*                                                                         *)
(* Python values are modelled as follows: Optional[str] is <<>> (None) or  *)
(* <<s>>; a dict is the sequence of its <<key, value>> items in insertion  *)
(* order (Python dicts iterate in insertion order); a list is a sequence;  *)
(* a str is a TLA+ string.                                                 *)
(***************************************************************************)
EXTENDS Integers, Sequences, FiniteSets, TLC

VARIABLES
    environ,            \* os.environ of the process (the variables the code reads)
    registry,           \* _ENVIRONMENT_CONFIGS: items (identifier, configuration built)
    call,               \* the last direct call of a library function: [fn, arg, source, result]
    pc,                 \* position of the run: a statement of main(), "library" or "compose"
    env_name,           \* validate_and_get_config: local env_name
    env_config,         \* validate_and_get_config: local env_config (None before)
    validation_errors,  \* validate_and_get_config: local validation_errors (None before)
    stdout,             \* the lines validate_and_get_config printed
    exit_code,          \* None while running, else the process exit code
    raised,             \* the exception that ended the run, "none" if none did
    stack,              \* the OptionsStrategyPlatformStack under construction
    modules,            \* the modular stacks constructed so far, in order: [name, resources]
    ssm                 \* the ssm.StringParameter constructs created, in order

vars == <<environ, registry, call, pc, env_name, env_config, validation_errors,
          stdout, exit_code, raised, stack, modules, ssm>>

-----------------------------------------------------------------------------
(* Python value helpers *)

None == <<>>
Some(v) == <<v>>

Range(s) == {s[i] : i \in 1..Len(s)}

\* str helpers: a str is a TLA+ string, a character a string of length 1
LowerLetters == "abcdefghijklmnopqrstuvwxyz"
UpperLetters == "ABCDEFGHIJKLMNOPQRSTUVWXYZ"

\* the position of character c in alphabet, 0 when it is not there
LetterIndex(alphabet, c) ==
    IF \E i \in 1..Len(alphabet) : SubSeq(alphabet, i, i) = c
    THEN CHOOSE i \in 1..Len(alphabet) : SubSeq(alphabet, i, i) = c
    ELSE 0

\* str.upper and str.lower on the ASCII letters, as tables of characters
UpperOf ==
    [c \in {SubSeq(LowerLetters, i, i) : i \in 1..Len(LowerLetters)} |->
        SubSeq(UpperLetters, LetterIndex(LowerLetters, c), LetterIndex(LowerLetters, c))]
LowerOf ==
    [c \in {SubSeq(UpperLetters, i, i) : i \in 1..Len(UpperLetters)} |->
        SubSeq(LowerLetters, LetterIndex(UpperLetters, c), LetterIndex(UpperLetters, c))]

IsCased(c) == c \in DOMAIN UpperOf \/ c \in DOMAIN LowerOf

CharUpper(c) == IF c \in DOMAIN UpperOf THEN UpperOf[c] ELSE c

CharLower(c) == IF c \in DOMAIN LowerOf THEN LowerOf[c] ELSE c

\* s.replace(c, ""): every occurrence of the character c deleted
RECURSIVE StrDelete(_, _)
StrDelete(s, c) ==
    IF s = "" THEN ""
    ELSE (IF SubSeq(s, 1, 1) = c THEN "" ELSE SubSeq(s, 1, 1))
         \o StrDelete(SubSeq(s, 2, Len(s)), c)

\* s.title(): a cased character is upper-cased when it follows an uncased
\* character or starts the string, and lower-cased otherwise
RECURSIVE TitleFrom(_, _)
TitleFrom(s, after_cased) ==
    IF s = "" THEN ""
    ELSE LET c == SubSeq(s, 1, 1)
         IN  (IF after_cased THEN CharLower(c) ELSE CharUpper(c))
             \o TitleFrom(SubSeq(s, 2, Len(s)), IsCased(c))

StrTitle(s) == TitleFrom(s, FALSE)

\* dict helpers: a dict is a sequence of <<key, value>> with pairwise distinct keys
DictKeys(d) == [i \in 1..Len(d) |-> d[i][1]]
DictKeySet(d) == {d[i][1] : i \in 1..Len(d)}
DictGet(d, k) == d[CHOOSE i \in 1..Len(d) : d[i][1] = k][2]

\* d[k] = v: an existing key keeps its position and gets the new value, a new
\* key is added at the end
DictSet(d, k, v) ==
    IF k \in DictKeySet(d)
    THEN [i \in 1..Len(d) |-> IF d[i][1] = k THEN <<k, v>> ELSE d[i]]
    ELSE Append(d, <<k, v>>)

\* for k, v in items: d[k] = v
RECURSIVE DictSetAll(_, _)
DictSetAll(d, items) ==
    IF items = <<>> THEN d
    ELSE DictSetAll(DictSet(d, Head(items)[1], Head(items)[2]), Tail(items))

\* str.endswith
EndsWith(s, suffix) ==
    /\ Len(s) >= Len(suffix)
    /\ SubSeq(s, Len(s) - Len(suffix) + 1, Len(s)) = suffix

-----------------------------------------------------------------------------
(* config/environments.py: the configuration schema (dataclasses).  The     *)
(* constructors take the fields the presets pass and fill in the dataclass  *)
(* defaults for the others.                                                 *)

NetworkingConfig(vpc_cidr, max_azs, enable_nat_gateway) ==
    [vpc_cidr |-> vpc_cidr, max_azs |-> max_azs,
     enable_nat_gateway |-> enable_nat_gateway,
     enable_dns_hostnames |-> TRUE, enable_dns_support |-> TRUE,
     enable_flow_logs |-> TRUE]

SecurityConfig(enable_waf, enable_shield, enable_strict_nacls, enable_vpc_endpoints) ==
    [enable_waf |-> enable_waf, enable_shield |-> enable_shield,
     enable_strict_nacls |-> enable_strict_nacls,
     enable_vpc_endpoints |-> enable_vpc_endpoints,
     enable_encryption_at_rest |-> TRUE, enable_encryption_in_transit |-> TRUE,
     kms_key_rotation |-> TRUE]

MonitoringConfig(log_retention_days, enable_detailed_monitoring, enable_xray_tracing, enable_enhanced_monitoring, alarm_notification_email) ==
    [log_retention_days |-> log_retention_days,
     enable_detailed_monitoring |-> enable_detailed_monitoring,
     enable_xray_tracing |-> enable_xray_tracing,
     enable_enhanced_monitoring |-> enable_enhanced_monitoring,
     alarm_notification_email |-> alarm_notification_email,
     enable_cost_alerts |-> TRUE]

ResourceConfig(lambda_memory_size, lambda_timeout, ecs_cpu, ecs_memory, rds_instance_class, rds_allocated_storage, elasticache_node_type) ==
    [lambda_memory_size |-> lambda_memory_size, lambda_timeout |-> lambda_timeout,
     ecs_cpu |-> ecs_cpu, ecs_memory |-> ecs_memory,
     rds_instance_class |-> rds_instance_class,
     rds_allocated_storage |-> rds_allocated_storage,
     elasticache_node_type |-> elasticache_node_type]

ComplianceConfig(data_residency_region, enable_audit_logging, backup_retention_days, enable_cross_region_backup, enable_deletion_protection) ==
    [data_residency_region |-> data_residency_region,
     enable_audit_logging |-> enable_audit_logging,
     backup_retention_days |-> backup_retention_days,
     enable_cross_region_backup |-> enable_cross_region_backup,
     enable_point_in_time_recovery |-> TRUE,
     enable_deletion_protection |-> enable_deletion_protection]

CostOptimizationConfig(enable_spot_instances, enable_scheduled_scaling, enable_lifecycle_policies, enable_resource_right_sizing) ==
    [enable_spot_instances |-> enable_spot_instances,
     enable_scheduled_scaling |-> enable_scheduled_scaling,
     enable_lifecycle_policies |-> enable_lifecycle_policies,
     enable_resource_right_sizing |-> enable_resource_right_sizing,
     backup_lifecycle_transition_days |-> 30]

\* EnvironmentConfig.__post_init__: the default resource tags
DefaultResourceTags(name, region) ==
    << <<"Project", "OptionsStrategyPlatform">>,
       <<"Environment", name>>,
       <<"Owner", "platform-team">>,
       <<"CostCenter", "trading-systems">>,
       <<"DataResidency", "india">>,
       <<"ManagedBy", "CDK">>,
       <<"Region", region>> >>

\* EnvironmentConfig.__post_init__: the default feature flags
DefaultFeatureFlags(name) ==
    << <<"enable_api_caching", name \in {"staging", "prod"}>>,
       <<"enable_multi_az", name = "prod">>,
       <<"enable_auto_scaling", name \in {"staging", "prod"}>>,
       <<"enable_blue_green_deployment", name = "prod">>,
       <<"enable_canary_deployment", name = "prod">>,
       <<"enable_circuit_breaker", TRUE>>,
       <<"enable_rate_limiting", TRUE>> >>

\* a constructor that adds the defaults under a supplied mapping
EnvironmentConfig_merged(name, aws_account, aws_region, networking, security, monitoring, resources, compliance, cost_optimization, resource_tags, feature_flags, custom_parameters) ==
    [env_name |-> name, aws_account |-> aws_account, aws_region |-> aws_region,
     networking |-> networking, security |-> security, monitoring |-> monitoring,
     resources |-> resources, compliance |-> compliance,
     cost_optimization |-> cost_optimization,
     resource_tags |-> DictSetAll(DefaultResourceTags(name, aws_region),
                                  resource_tags),
     feature_flags |-> DictSetAll(DefaultFeatureFlags(name), feature_flags),
     custom_parameters |-> custom_parameters]

\* EnvironmentConfig(...) followed by __post_init__: an empty tag or flag dict
\* is replaced by the defaults, a non-empty one is kept
EnvironmentConfig(name, aws_account, aws_region, networking, security, monitoring, resources, compliance, cost_optimization, resource_tags, feature_flags, custom_parameters) ==
    [env_name |-> name, aws_account |-> aws_account, aws_region |-> aws_region,
     networking |-> networking, security |-> security, monitoring |-> monitoring,
     resources |-> resources, compliance |-> compliance,
     cost_optimization |-> cost_optimization,
     resource_tags |-> IF resource_tags = <<>>
                       THEN DefaultResourceTags(name, aws_region)
                       ELSE resource_tags,
     feature_flags |-> IF feature_flags = <<>>
                       THEN DefaultFeatureFlags(name)
                       ELSE feature_flags,
     custom_parameters |-> custom_parameters]

is_production(config) == config.env_name = "prod"
\* a prefix that leaves the environment out
get_parameter_store_prefix_shared(config) == "/options-strategy"
get_parameter_store_prefix(config) == "/options-strategy/" \o config.env_name

-----------------------------------------------------------------------------
(* config/environments.py: the three presets.  env is os.environ.           *)

_get_dev_config_small_vpc(env) ==
    EnvironmentConfig("dev", env["CDK_DEFAULT_ACCOUNT"], "ap-south-1",
        NetworkingConfig("10.0.0.0/24", 2, TRUE),
        SecurityConfig(FALSE, FALSE, FALSE, FALSE),
        MonitoringConfig(7, FALSE, TRUE, FALSE, env["DEV_NOTIFICATION_EMAIL"]),
        ResourceConfig(512, 30, 256, 512, "db.t3.micro", 20, "cache.t3.micro"),
        ComplianceConfig("ap-south-1", TRUE, 7, FALSE, FALSE),
        CostOptimizationConfig(TRUE, FALSE, TRUE, FALSE),
        <<>>, <<>>,
        << <<"debug_mode", "true">>, <<"log_level", "DEBUG">>,
           <<"enable_test_data", "true">> >>)

_get_dev_config(env) ==
    EnvironmentConfig("dev", env["CDK_DEFAULT_ACCOUNT"], "ap-south-1",
        NetworkingConfig("10.0.0.0/16", 2, TRUE),
        SecurityConfig(FALSE, FALSE, FALSE, FALSE),
        MonitoringConfig(7, FALSE, TRUE, FALSE, env["DEV_NOTIFICATION_EMAIL"]),
        ResourceConfig(512, 30, 256, 512, "db.t3.micro", 20, "cache.t3.micro"),
        ComplianceConfig("ap-south-1", TRUE, 7, FALSE, FALSE),
        CostOptimizationConfig(TRUE, FALSE, TRUE, FALSE),
        <<>>, <<>>,
        << <<"debug_mode", "true">>, <<"log_level", "DEBUG">>,
           <<"enable_test_data", "true">> >>)

_get_staging_config_other_region(env) ==
    EnvironmentConfig("staging", env["CDK_DEFAULT_ACCOUNT"], "ap-southeast-1",
        NetworkingConfig("10.1.0.0/16", 2, TRUE),
        SecurityConfig(TRUE, FALSE, TRUE, TRUE),
        MonitoringConfig(30, TRUE, TRUE, TRUE, env["STAGING_NOTIFICATION_EMAIL"]),
        ResourceConfig(1024, 60, 512, 1024, "db.t3.small", 50, "cache.t3.small"),
        ComplianceConfig("ap-southeast-1", TRUE, 30, TRUE, TRUE),
        CostOptimizationConfig(FALSE, TRUE, TRUE, TRUE),
        <<>>, <<>>,
        << <<"debug_mode", "false">>, <<"log_level", "INFO">>,
           <<"enable_test_data", "false">>, <<"cache_ttl", "3600">> >>)

_get_staging_config(env) ==
    EnvironmentConfig("staging", env["CDK_DEFAULT_ACCOUNT"], "ap-south-1",
        NetworkingConfig("10.1.0.0/16", 2, TRUE),
        SecurityConfig(TRUE, FALSE, TRUE, TRUE),
        MonitoringConfig(30, TRUE, TRUE, TRUE, env["STAGING_NOTIFICATION_EMAIL"]),
        ResourceConfig(1024, 60, 512, 1024, "db.t3.small", 50, "cache.t3.small"),
        ComplianceConfig("ap-south-1", TRUE, 30, TRUE, TRUE),
        CostOptimizationConfig(FALSE, TRUE, TRUE, TRUE),
        <<>>, <<>>,
        << <<"debug_mode", "false">>, <<"log_level", "INFO">>,
           <<"enable_test_data", "false">>, <<"cache_ttl", "3600">> >>)

_get_prod_config(env) ==
    EnvironmentConfig("prod", env["CDK_DEFAULT_ACCOUNT"], "ap-south-1",
        NetworkingConfig("10.2.0.0/16", 3, TRUE),
        SecurityConfig(TRUE, TRUE, TRUE, TRUE),
        MonitoringConfig(90, TRUE, TRUE, TRUE, env["PROD_NOTIFICATION_EMAIL"]),
        ResourceConfig(2048, 300, 2048, 4096, "db.r5.large", 200, "cache.r5.large"),
        ComplianceConfig("ap-south-1", TRUE, 90, TRUE, TRUE),
        CostOptimizationConfig(FALSE, TRUE, TRUE, TRUE),
        <<>>, <<>>,
        << <<"debug_mode", "false">>, <<"log_level", "WARN">>,
           <<"enable_test_data", "false">>, <<"cache_ttl", "7200">>,
           <<"max_retry_attempts", "3">>,
           <<"circuit_breaker_threshold", "50">> >>)

\* _ENVIRONMENT_CONFIGS as shipped: identifier -> what its builder returns
_ENVIRONMENT_CONFIGS(env) ==
    << <<"dev", _get_dev_config(env)>>,
       <<"staging", _get_staging_config(env)>>,
       <<"prod", _get_prod_config(env)>> >>
-----------------------------------------------------------------------------
(* config/environments.py: get_environment_config and                       *)
(* validate_environment_config                                              *)

\* str(list_of_str): "['a', 'b']"
RECURSIVE ListItemsRepr(_)
ListItemsRepr(l) ==
    IF l = <<>> THEN ""
    ELSE IF Len(l) = 1 THEN "'" \o l[1] \o "'"
    ELSE "'" \o l[1] \o "', " \o ListItemsRepr(Tail(l))
ListRepr(l) == "[" \o ListItemsRepr(l) \o "]"

\* os.environ.get(key, default)
EnvironGet(env, key, default) == IF env[key] = None THEN default ELSE env[key][1]

\* get_environment_config(env_name): reg is _ENVIRONMENT_CONFIGS, arg the
\* Optional argument.  Returns the configuration or raises ValueError, whose
\* message names the identifier and list(_ENVIRONMENT_CONFIGS.keys()).
DefaultEnvironment_prod == "prod"
DefaultEnvironment == "dev"

get_environment_config_fallback(reg, arg, env) ==
    LET name == IF arg = None
                THEN EnvironGet(env, "CDK_ENVIRONMENT", DefaultEnvironment)
                ELSE arg[1]
    IN  IF name \notin DictKeySet(reg)
        THEN [raises |-> "none", message |-> "",
              config |-> Some(DictGet(reg, DefaultEnvironment))]
        ELSE [raises |-> "none", message |-> "", config |-> Some(DictGet(reg, name))]

get_environment_config(reg, arg, env) ==
    LET name == IF arg = None
                THEN EnvironGet(env, "CDK_ENVIRONMENT", DefaultEnvironment)
                ELSE arg[1]
    IN  IF name \notin DictKeySet(reg)
        THEN [raises |-> "ValueError",
              message |-> "Unsupported environment: " \o name
                          \o ". Supported environments: " \o ListRepr(DictKeys(reg)),
              config |-> None]
        ELSE [raises |-> "none", message |-> "", config |-> Some(DictGet(reg, name))]

RequiredRegion == "ap-south-1"
RequiredCidrSuffix == "/16"
MinProdAzs == 3
MinProdLogRetentionDays == 90
MinProdLambdaMemory == 1024

RegionFinding(config) ==
    "AWS region must be ap-south-1 for Indian market compliance, got: "
        \o config.aws_region
CidrFinding(config) ==
    "VPC CIDR should use /16 subnet for proper IP allocation, got: "
        \o config.networking.vpc_cidr
AzFinding == "Production environment should use at least 3 AZs for HA"
WafFinding == "Production environment should enable WAF"
DeletionProtectionFinding == "Production environment should enable deletion protection"
LogRetentionFinding == "Production environment should retain logs for at least 90 days"
LambdaMemoryFinding == "Production Lambda functions should have at least 1024MB memory"

\* the conditions under which validate_environment_config appends a finding
RegionRuleViolated(config) == config.aws_region # RequiredRegion
CidrRuleViolated(config) == ~EndsWith(config.networking.vpc_cidr, RequiredCidrSuffix)
AzRuleViolated_inclusive(config) ==
    is_production(config) /\ config.networking.max_azs <= MinProdAzs
AzRuleViolated(config) ==
    is_production(config) /\ config.networking.max_azs < MinProdAzs
WafRuleViolated_any_environment(config) == ~config.security.enable_waf
WafRuleViolated(config) == is_production(config) /\ ~config.security.enable_waf
DeletionProtectionRuleViolated(config) ==
    is_production(config) /\ ~config.compliance.enable_deletion_protection
LogRetentionRuleViolated_inclusive(config) ==
    is_production(config)
        /\ config.monitoring.log_retention_days <= MinProdLogRetentionDays
LogRetentionRuleViolated(config) ==
    is_production(config)
        /\ config.monitoring.log_retention_days < MinProdLogRetentionDays
LambdaMemoryRuleViolated_inclusive(config) ==
    config.env_name = "prod"
        /\ config.resources.lambda_memory_size <= MinProdLambdaMemory
LambdaMemoryRuleViolated(config) ==
    config.env_name = "prod"
        /\ config.resources.lambda_memory_size < MinProdLambdaMemory

\* "if cond: errors.append(finding)"
AppendIf_elif(errors, cond, finding) ==
    IF cond /\ errors = <<>> THEN Append(errors, finding) ELSE errors
AppendIf(errors, cond, finding) == IF cond THEN Append(errors, finding) ELSE errors

validate_environment_config(config) ==
    LET e0 == <<>>
        e1 == AppendIf(e0, RegionRuleViolated(config), RegionFinding(config))
        e2 == AppendIf(e1, CidrRuleViolated(config), CidrFinding(config))
        e3 == AppendIf(e2, AzRuleViolated(config), AzFinding)
        e4 == AppendIf(e3, WafRuleViolated(config), WafFinding)
        e5 == AppendIf(e4, DeletionProtectionRuleViolated(config),
                       DeletionProtectionFinding)
        e6 == AppendIf(e5, LogRetentionRuleViolated(config), LogRetentionFinding)
        e7 == AppendIf(e6, LambdaMemoryRuleViolated(config), LambdaMemoryFinding)
    IN  e7

-----------------------------------------------------------------------------
(* Inputs: the process environment and the contents of                      *)
(* config/environments.py.  The registry is the shipped one or the shipped  *)
(* one with a preset edited (app.py:60 tells the operator to "fix the       *)
(* configuration issues in config/environments.py").                        *)

MaxAzs == 4

EnvironKeys == {"CDK_ENVIRONMENT", "CDK_DEFAULT_ACCOUNT", "DEV_NOTIFICATION_EMAIL",
                "STAGING_NOTIFICATION_EMAIL", "PROD_NOTIFICATION_EMAIL"}

EnvironmentIds == {"dev", "staging", "prod"}
EnvironmentInputs == EnvironmentIds \cup {"qa", ""}

Environs ==
    { [k \in EnvironKeys |->
          CASE k = "CDK_ENVIRONMENT" -> e
            [] k = "CDK_DEFAULT_ACCOUNT" -> a
            [] OTHER -> m] :
      e \in {None} \cup {Some(x) : x \in EnvironmentInputs},
      a \in {None, Some("123456789012")},
      m \in {None, Some("ops@example.com")} }

PresetEdits == {"shipped", "prod_region", "staging_region", "dev_cidr", "prod_azs",
                "prod_waf", "prod_deletion_protection", "prod_log_retention",
                "prod_lambda_memory", "prod_azs_waf_memory", "dev_flags_custom",
                "dev_custom_keys"}

EditPreset(config, edit) ==
    CASE edit = "prod_region" /\ config.env_name = "prod" ->
            [config EXCEPT !.aws_region = "us-east-1"]
      [] edit = "staging_region" /\ config.env_name = "staging" ->
            [config EXCEPT !.aws_region = "ap-southeast-1"]
      [] edit = "dev_cidr" /\ config.env_name = "dev" ->
            [config EXCEPT !.networking.vpc_cidr = "10.0.0.0/24"]
      [] edit = "prod_azs" /\ config.env_name = "prod" ->
            [config EXCEPT !.networking.max_azs = 2]
      [] edit = "prod_waf" /\ config.env_name = "prod" ->
            [config EXCEPT !.security.enable_waf = FALSE]
      [] edit = "prod_deletion_protection" /\ config.env_name = "prod" ->
            [config EXCEPT !.compliance.enable_deletion_protection = FALSE]
      [] edit = "prod_log_retention" /\ config.env_name = "prod" ->
            [config EXCEPT !.monitoring.log_retention_days = 30]
      [] edit = "prod_lambda_memory" /\ config.env_name = "prod" ->
            [config EXCEPT !.resources.lambda_memory_size = 512]
      [] edit = "prod_azs_waf_memory" /\ config.env_name = "prod" ->
            [config EXCEPT !.networking.max_azs = 1,
                           !.security.enable_waf = FALSE,
                           !.resources.lambda_memory_size = 128]
      [] edit = "dev_flags_custom" /\ config.env_name = "dev" ->
            [config EXCEPT !.feature_flags = << <<"cache_ttl", TRUE>>,
                                                <<"vpc/cidr", FALSE>> >>,
                           !.custom_parameters = << <<"cache_ttl", "60">>,
                                                    <<"vpc/cidr", "10.9.0.0/16">>,
                                                    <<"environment", "x">> >>]
      [] edit = "dev_custom_keys" /\ config.env_name = "dev" ->
            [config EXCEPT !.custom_parameters = << <<"cache_ttl", "60">>,
                                                    <<"cachettl", "61">> >>]
      [] OTHER -> config

EditRegistry(reg, edit) ==
    [i \in 1..Len(reg) |-> <<reg[i][1], EditPreset(reg[i][2], edit)>>]

Registries(env) == {EditRegistry(_ENVIRONMENT_CONFIGS(env), e) : e \in PresetEdits}
-----------------------------------------------------------------------------
(* app.py: validate_and_get_config                                          *)

\* "if validation_errors:": a non-empty list of findings ends the run
ExitOnFindings_never(errors) == FALSE
ExitOnFindings(errors) == errors # <<>>

\* the U+274C symbol that starts the error lines, written in ASCII
CrossMark == "[x]"

\* a report that stops after the first finding
FindingLines_first_only(errors) == <<"   - " \o errors[1]>>

\* for error in validation_errors: print(f"   - {error}")
FindingLines(errors) == [i \in 1..Len(errors) |-> "   - " \o errors[i]]

\* a validation that repairs the configuration it was given instead of
\* reporting the findings
validate_and_get_config_repairing(reg, env) ==
    LET name == EnvironGet(env, "CDK_ENVIRONMENT", "dev")
        got == get_environment_config(reg, Some(name), env)
    IN  IF got.raises = "ValueError"
        THEN [env_name |-> name, env_config |-> None, validation_errors |-> None,
              printed |-> <<CrossMark \o " Invalid environment configuration: "
                            \o got.message>>,
              exit |-> Some(1)]
        ELSE [env_name |-> name,
              env_config |-> Some([got.config[1] EXCEPT
                                     !.security.enable_waf = TRUE,
                                     !.compliance.enable_deletion_protection = TRUE]),
              validation_errors |-> Some(<<>>),
              printed |-> <<>>,
              exit |-> None]

\* the outcome of validate_and_get_config: its locals, what it printed, and
\* the sys.exit code (None when it returns normally)
validate_and_get_config(reg, env) ==
    LET name == EnvironGet(env, "CDK_ENVIRONMENT", "dev")
        got == get_environment_config(reg, Some(name), env)
    IN  IF got.raises = "ValueError"
        THEN [env_name |-> name, env_config |-> None, validation_errors |-> None,
              printed |-> <<CrossMark \o " Invalid environment configuration: "
                            \o got.message>>,
              exit |-> Some(1)]
        ELSE LET errors == validate_environment_config(got.config[1])
             IN  IF ExitOnFindings(errors)
                 THEN [env_name |-> name, env_config |-> got.config,
                       validation_errors |-> Some(errors),
                       printed |-> <<CrossMark \o " Environment configuration validation failed:">>
                                   \o FindingLines(errors)
                                   \o <<"", "Please fix the configuration issues in config/environments.py">>,
                       exit |-> Some(1)]
                 ELSE [env_name |-> name, env_config |-> got.config,
                       validation_errors |-> Some(errors),
                       printed |-> <<>>,
                       exit |-> None]

-----------------------------------------------------------------------------
(* infrastructure/app.py: OptionsStrategyPlatformStack                      *)

InitSteps_iam_first ==
    << "_apply_standard_tags",
       "_create_iam_infrastructure",
       "_create_vpc_infrastructure",
       "_create_security_infrastructure",
       "_create_logging_infrastructure",
       "_create_notification_infrastructure",
       "_create_monitoring_infrastructure",
       "_create_configuration_infrastructure",
       "_create_outputs" >>

\* the construction steps of __init__, in statement order
InitSteps ==
    << "_apply_standard_tags",
       "_create_vpc_infrastructure",
       "_create_security_infrastructure",
       "_create_iam_infrastructure",
       "_create_logging_infrastructure",
       "_create_notification_infrastructure",
       "_create_monitoring_infrastructure",
       "_create_configuration_infrastructure",
       "_create_outputs" >>

StepIndex(step) == CHOOSE i \in 1..Len(InitSteps) : InitSteps[i] = step

\* where control goes when a step returns
StepAfter(step) ==
    IF StepIndex(step) < Len(InitSteps)
    THEN InitSteps[StepIndex(step) + 1]
    ELSE "set_context"

\* the attributes of self a step reads
StepReads(step) ==
    CASE step = "_apply_standard_tags" -> {"env_config"}
      [] step = "_create_vpc_infrastructure" -> {"env_config", "env_name"}
      [] step = "_create_security_infrastructure" -> {"vpc"}
      [] step = "_create_iam_infrastructure" -> {"env_name"}
      [] step = "_create_logging_infrastructure" -> {"env_name"}
      [] step = "_create_notification_infrastructure" -> {"env_name", "env_config"}
      [] step = "_create_monitoring_infrastructure" ->
            {"env_name", "log_groups", "vpc_flow_logs", "sns_topics"}
      [] step = "_create_configuration_infrastructure" ->
            {"env_name", "env_config", "vpc", "security_groups", "iam_roles",
             "sns_topics"}
      [] step = "_create_outputs" ->
            {"env_name", "vpc", "iam_roles", "sns_topics", "dashboard"}

\* the dependency wirings of the construction steps: as shipped, or with a
\* manufactured cycle in which _create_vpc_infrastructure also reads
\* self.security_groups (Networking needs Security, Security needs Networking)
Wirings == {"shipped", "cycle"}

WiredReads(wiring, step) ==
    IF wiring = "cycle" /\ step = "_create_vpc_infrastructure"
    THEN StepReads(step) \cup {"security_groups"}
    ELSE StepReads(step)

\* the attributes of self a step assigns
StepAssigns(step) ==
    CASE step = "_apply_standard_tags" -> {}
      [] step = "_create_vpc_infrastructure" -> {"vpc", "vpc_flow_logs"}
      [] step = "_create_security_infrastructure" -> {"security_groups"}
      [] step = "_create_iam_infrastructure" -> {"iam_roles"}
      [] step = "_create_logging_infrastructure" -> {"log_groups"}
      [] step = "_create_notification_infrastructure" -> {"sns_topics"}
      [] step = "_create_monitoring_infrastructure" -> {"dashboard", "alarms"}
      [] step = "_create_configuration_infrastructure" -> {"parameters"}
      [] step = "_create_outputs" -> {}

\* infrastructure_params held in a container whose iteration order differs
\* from one run to the next
infrastructure_params_unordered(config) ==
    LET params == << <<"vpc/id", "${vpc.vpc_id}">>,
                     <<"vpc/cidr", config.networking.vpc_cidr>> >>
    IN  IF call.fn = "main" THEN <<params[2], params[1]>> ELSE params

\* _create_configuration_infrastructure: infrastructure_params.  The values
\* are the CDK tokens of the resources.
infrastructure_params(config) ==
    << <<"vpc/id", "${vpc.vpc_id}">>,
       <<"vpc/cidr", config.networking.vpc_cidr>>,
       <<"subnets/public", "${vpc.public_subnets}">>,
       <<"subnets/private", "${vpc.private_subnets}">>,
       <<"subnets/isolated", "${vpc.isolated_subnets}">>,
       <<"security-groups/alb", "${security_groups.alb}">>,
       <<"security-groups/app", "${security_groups.app}">>,
       <<"security-groups/lambda", "${security_groups.lambda}">>,
       <<"security-groups/database", "${security_groups.database}">>,
       <<"iam/lambda-role-arn", "${iam_roles.lambda_execution}">>,
       <<"iam/ecs-execution-role-arn", "${iam_roles.ecs_execution}">>,
       <<"iam/ecs-task-role-arn", "${iam_roles.ecs_task}">>,
       <<"sns/critical-alerts-topic", "${sns_topics.critical_alerts}">>,
       <<"sns/operational-alerts-topic", "${sns_topics.operational_alerts}">>,
       <<"sns/trading-notifications-topic", "${sns_topics.trading_notifications}">> >>

\* ssm.StringParameter(scope, ..., parameter_name=path, string_value=value)
StringParameter(scope, name, path, value) ==
    [stack |-> scope, name |-> name, path |-> path, value |-> value]

\* f"Parameter{param_name.replace('/', '').replace('-', '').title()}"
PlatformParameterId(param_name) ==
    "Parameter" \o StrTitle(StrDelete(StrDelete(param_name, "/"), "-"))

\* the StringParameter constructs _create_configuration_infrastructure creates
PlatformParameters(name, config) ==
    LET params == infrastructure_params(config)
    IN  [i \in 1..Len(params) |->
            StringParameter("Platform", params[i][1],
                            "/options-strategy/" \o name \o "/" \o params[i][1],
                            params[i][2])]
-----------------------------------------------------------------------------
(* app.py: main().  pc names the statement about to run; inside the stack   *)
(* constructor it is the name of the construction step about to run.        *)

NoStack == [made |-> FALSE, env |-> None, attrs |-> {}, log |-> <<>>, tags |-> <<>>,
            parameters |-> <<>>, wiring |-> "shipped", log_group_constructs |-> <<>>]

\* aws_cdk.Environment(account=..., region=...)
Environment(account, region) == [account |-> account, region |-> region]
NoCall == [fn |-> "none", arg |-> None, source |-> None, result |-> None]

\* the statements of main() inside its try block
TryBlock == {"start", "print_deployment_info", "create_app", "stack_init",
             "set_context", "synth"} \cup Range(InitSteps)

\* a handler that reports the exception and lets the run end with status 0
Exit1_status_zero(exception) ==
    /\ exit_code' = Some(0)
    /\ raised' = exception
    /\ pc' = "exited"

\* except KeyboardInterrupt / except Exception: sys.exit(1)
Exit1(exception) ==
    /\ exit_code' = Some(1)
    /\ raised' = exception
    /\ pc' = "exited"

\* main: env_config, aws_env = validate_and_get_config()
ValidateAndGetConfig ==
    /\ pc = "start"
    /\ LET r == validate_and_get_config(registry, environ)
       IN  /\ env_name' = Some(r.env_name)
           /\ env_config' = r.env_config
           /\ validation_errors' = r.validation_errors
           /\ stdout' = stdout \o r.printed
           /\ exit_code' = r.exit
           /\ raised' = IF r.exit = None THEN "none" ELSE "SystemExit"
           /\ pc' = IF r.exit = None THEN "print_deployment_info" ELSE "exited"
    /\ UNCHANGED <<environ, registry, call, stack, modules, ssm>>

\* main: print_deployment_info(env_config)
PrintDeploymentInfo ==
    /\ pc = "print_deployment_info"
    /\ pc' = "create_app"
    /\ UNCHANGED <<environ, registry, call, env_name, env_config, validation_errors,
                   stdout, exit_code, raised, stack, modules, ssm>>

\* main: app = App()
CreateApp ==
    /\ pc = "create_app"
    /\ pc' = "stack_init"
    /\ UNCHANGED <<environ, registry, call, env_name, env_config, validation_errors,
                   stdout, exit_code, raised, stack, modules, ssm>>

\* OptionsStrategyPlatformStack.__init__: super().__init__, self.env_config,
\* self.env_name
StackInit ==
    /\ pc = "stack_init"
    /\ stack' = [stack EXCEPT
                    !.made = TRUE,
                    !.env = Some(Environment(env_config[1].aws_account,
                                             env_config[1].aws_region)),
                    !.attrs = {"env_config", "env_name"}]
    /\ pc' = InitSteps[1]
    /\ UNCHANGED <<environ, registry, call, env_name, env_config, validation_errors,
                   stdout, exit_code, raised, modules, ssm>>

\* aws_logs.RetentionDays: the members the stack uses, as days
RetentionDays == [ONE_WEEK |-> 7, ONE_MONTH |-> 30]

\* retention = ONE_WEEK if self.env_name == "dev" else ONE_MONTH
StackRetention(name, config) ==
    IF name = "dev" THEN RetentionDays.ONE_WEEK ELSE RetentionDays.ONE_MONTH

\* logs.LogGroup(self, id, log_group_name=..., retention=...)
LogGroup(id, log_group_name, retention) ==
    [id |-> id, log_group_name |-> log_group_name, retention |-> retention]

\* the log groups a construction step creates
StepLogGroups(step, name, config) ==
    CASE step = "_create_vpc_infrastructure" ->
            << LogGroup("VPCFlowLogsGroup",
                        "/aws/vpc/flowlogs/options-strategy-" \o name,
                        StackRetention(name, config)) >>
      [] step = "_create_logging_infrastructure" ->
            << LogGroup("ApplicationLogGroup",
                        "/aws/ecs/options-strategy-" \o name,
                        StackRetention(name, config)),
               LogGroup("LambdaLogGroup",
                        "/aws/lambda/options-strategy-" \o name,
                        StackRetention(name, config)),
               LogGroup("APIGatewayLogGroup",
                        "/aws/apigateway/options-strategy-" \o name,
                        StackRetention(name, config)) >>
      [] OTHER -> <<>>

\* one construction step: reading an attribute that was never assigned raises
\* AttributeError, which main turns into exit code 1
RunStep(step, tags, parameters, created) ==
    /\ IF WiredReads(stack.wiring, step) \subseteq stack.attrs
       THEN /\ stack' = [stack EXCEPT !.attrs = @ \cup StepAssigns(step),
                                      !.log = Append(@, step),
                                      !.tags = tags,
                                      !.parameters = parameters,
                                      !.log_group_constructs =
                                          @ \o StepLogGroups(step, env_name[1], env_config[1])]
            /\ ssm' = ssm \o created
            /\ pc' = StepAfter(step)
            /\ UNCHANGED <<exit_code, raised>>
       ELSE /\ Exit1("AttributeError")
            /\ UNCHANGED <<stack, ssm>>
    /\ UNCHANGED <<environ, registry, call, env_name, env_config, validation_errors,
                   stdout, modules>>

PlainStep(step) == RunStep(step, stack.tags, stack.parameters, <<>>)

\* for key, value in self.env_config.resource_tags.items(): Tags.of(self).add
ApplyStandardTags ==
    /\ pc = "_apply_standard_tags"
    /\ RunStep("_apply_standard_tags",
               DictSetAll(stack.tags, env_config[1].resource_tags),
               stack.parameters, <<>>)

CreateVpcInfrastructure ==
    /\ pc = "_create_vpc_infrastructure"
    /\ PlainStep("_create_vpc_infrastructure")
CreateSecurityInfrastructure ==
    /\ pc = "_create_security_infrastructure"
    /\ PlainStep("_create_security_infrastructure")
CreateIamInfrastructure ==
    /\ pc = "_create_iam_infrastructure"
    /\ PlainStep("_create_iam_infrastructure")
CreateLoggingInfrastructure ==
    /\ pc = "_create_logging_infrastructure"
    /\ PlainStep("_create_logging_infrastructure")
CreateNotificationInfrastructure ==
    /\ pc = "_create_notification_infrastructure"
    /\ PlainStep("_create_notification_infrastructure")
CreateMonitoringInfrastructure ==
    /\ pc = "_create_monitoring_infrastructure"
    /\ PlainStep("_create_monitoring_infrastructure")

\* self.parameters = {}; one StringParameter per item of infrastructure_params
CreateConfigurationInfrastructure ==
    /\ pc = "_create_configuration_infrastructure"
    /\ LET created == PlatformParameters(env_name[1], env_config[1])
       IN  RunStep("_create_configuration_infrastructure",
                stack.tags,
                DictSetAll(<<>>, [i \in 1..Len(created) |->
                                     <<created[i].name, created[i].path>>]),
                created)

CreateOutputs ==
    /\ pc = "_create_outputs"
    /\ PlainStep("_create_outputs")

\* main: app.node.set_context(...)
SetContext ==
    /\ pc = "set_context"
    /\ pc' = "synth"
    /\ UNCHANGED <<environ, registry, call, env_name, env_config, validation_errors,
                   stdout, exit_code, raised, stack, modules, ssm>>

\* main: app.synth(), then main returns
Synth ==
    /\ pc = "synth"
    /\ pc' = "done"
    /\ exit_code' = Some(0)
    /\ UNCHANGED <<environ, registry, call, env_name, env_config, validation_errors,
                   stdout, raised, stack, modules, ssm>>

\* except KeyboardInterrupt: the user interrupts the run
KeyboardInterrupt ==
    /\ pc \in TryBlock
    /\ Exit1("KeyboardInterrupt")
    /\ UNCHANGED <<environ, registry, call, env_name, env_config, validation_errors,
                   stdout, stack, modules, ssm>>

\* except Exception: a CDK call made while building the app raises
CdkRaises ==
    /\ pc \in TryBlock \ {"start", "print_deployment_info"}
    /\ Exit1("Exception")
    /\ UNCHANGED <<environ, registry, call, env_name, env_config, validation_errors,
                   stdout, stack, modules, ssm>>

Init ==
    /\ environ \in Environs
    /\ registry \in Registries(environ)
    /\ call = NoCall
    /\ pc = "start"
    /\ env_name = None
    /\ env_config = None
    /\ validation_errors = None
    /\ stdout = <<>>
    /\ exit_code = None
    /\ raised = "none"
    /\ stack = NoStack
    /\ modules = <<>>
    /\ ssm = <<>>

Next ==
    \/ ValidateAndGetConfig
    \/ PrintDeploymentInfo
    \/ CreateApp
    \/ StackInit
    \/ ApplyStandardTags
    \/ CreateVpcInfrastructure
    \/ CreateSecurityInfrastructure
    \/ CreateIamInfrastructure
    \/ CreateLoggingInfrastructure
    \/ CreateNotificationInfrastructure
    \/ CreateMonitoringInfrastructure
    \/ CreateConfigurationInfrastructure
    \/ CreateOutputs
    \/ SetContext
    \/ Synth
    \/ KeyboardInterrupt
    \/ CdkRaises

Spec == Init /\ [][Next]_vars

\* app.py run a second time in the same process environment and with the
\* same config/environments.py: what the first run did is kept in call
Rerun ==
    /\ pc = "done"
    /\ call.fn = "none"
    /\ call' = [fn |-> "main", arg |-> env_config, source |-> None,
                result |-> [log |-> stack.log, tags |-> stack.tags, ssm |-> ssm]]
    /\ pc' = "start"
    /\ env_name' = None
    /\ env_config' = None
    /\ validation_errors' = None
    /\ stdout' = <<>>
    /\ exit_code' = None
    /\ raised' = "none"
    /\ stack' = NoStack
    /\ ssm' = <<>>
    /\ UNCHANGED <<environ, registry, modules>>

NextTwice ==
    \/ Next
    \/ Rerun

SpecTwice == Init /\ [][NextTwice]_vars

\* the runs of main() with the steps wired as shipped or with the
\* manufactured dependency cycle
InitWired ==
    /\ environ \in Environs
    /\ registry \in Registries(environ)
    /\ call = NoCall
    /\ pc = "start"
    /\ env_name = None
    /\ env_config = None
    /\ validation_errors = None
    /\ stdout = <<>>
    /\ exit_code = None
    /\ raised = "none"
    /\ stack \in {[NoStack EXCEPT !.wiring = w] : w \in Wirings}
    /\ modules = <<>>
    /\ ssm = <<>>

SpecWired == InitWired /\ [][Next]_vars
-----------------------------------------------------------------------------
(* The library used directly: a client calls get_environment_config, and    *)
(* validate_environment_config on the configuration it got or on one it     *)
(* built with the EnvironmentConfig constructor.                            *)

EnvironmentArgs == {None} \cup {Some(x) : x \in EnvironmentInputs}

RegionInputs == {"ap-south-1", "us-east-1"}
CidrInputs == {"10.2.0.0/16", "10.2.0.0/24", "16"}
LogRetentionInputs == {89, 90, 91}
LambdaMemoryInputs == {1023, 1024, 1025}

ClientConfig(name, region, cidr, azs, waf, protect, retention, memory) ==
    EnvironmentConfig(name, None, region,
        NetworkingConfig(cidr, azs, TRUE),
        SecurityConfig(waf, FALSE, FALSE, FALSE),
        MonitoringConfig(retention, FALSE, TRUE, FALSE, None),
        ResourceConfig(memory, 30, 256, 512, "db.t3.micro", 20, "cache.t3.micro"),
        ComplianceConfig("ap-south-1", TRUE, 7, FALSE, protect),
        CostOptimizationConfig(TRUE, FALSE, TRUE, FALSE),
        <<>>, <<>>, <<>>)

ClientConfigs ==
    { ClientConfig(name, region, cidr, azs, waf, protect, retention, memory) :
        name \in EnvironmentIds, region \in RegionInputs, cidr \in CidrInputs,
        azs \in 1..MaxAzs, waf \in BOOLEAN, protect \in BOOLEAN,
        retention \in LogRetentionInputs, memory \in LambdaMemoryInputs }

CallGetEnvironmentConfig ==
    /\ pc = "library"
    /\ call.fn = "none"
    /\ \E arg \in EnvironmentArgs :
          call' = [fn |-> "get_environment_config", arg |-> arg, source |-> None,
                   result |-> get_environment_config(registry, arg, environ)]
    /\ UNCHANGED <<environ, registry, pc, env_name, env_config, validation_errors,
                   stdout, exit_code, raised, stack, modules, ssm>>

CallValidateEnvironmentConfig ==
    /\ pc = "library"
    /\ \/ /\ call.fn = "none"
          /\ \E config \in ClientConfigs :
                call' = [fn |-> "validate_environment_config", arg |-> config,
                         source |-> None,
                         result |-> validate_environment_config(config)]
       \/ /\ call.fn = "get_environment_config"
          /\ call.result.raises = "none"
          /\ call' = [fn |-> "validate_environment_config",
                      arg |-> call.result.config[1],
                      source |-> Some(call.result.config[1].env_name),
                      result |-> validate_environment_config(call.result.config[1])]
    /\ UNCHANGED <<environ, registry, pc, env_name, env_config, validation_errors,
                   stdout, exit_code, raised, stack, modules, ssm>>

InitCalls ==
    /\ environ \in Environs
    /\ registry = _ENVIRONMENT_CONFIGS(environ)
    /\ call = NoCall
    /\ pc = "library"
    /\ env_name = None
    /\ env_config = None
    /\ validation_errors = None
    /\ stdout = <<>>
    /\ exit_code = None
    /\ raised = "none"
    /\ stack = NoStack
    /\ modules = <<>>
    /\ ssm = <<>>

NextCalls ==
    \/ CallGetEnvironmentConfig
    \/ CallValidateEnvironmentConfig

SpecCalls == InitCalls /\ [][NextCalls]_vars
-----------------------------------------------------------------------------
(* infrastructure/stacks: the modular stacks.  A client app resolves one    *)
(* configuration and constructs the stacks from it, each class at most once *)
(* and in an order of its choice; SecurityStack takes the VPC of the        *)
(* NetworkingStack as a mandatory argument.  A parameter is recorded under  *)
(* the key its stack keeps it by, or under its construct id when the stack  *)
(* keeps no reference to it.                                                *)

\* str(b).lower() of a bool
\* str(b) without .lower()
BoolLower_repr(b) == IF b THEN "True" ELSE "False"
BoolLower(b) == IF b THEN "true" ELSE "false"

\* str(n) of a non-negative int
Digits == <<"0", "1", "2", "3", "4", "5", "6", "7", "8", "9">>
RECURSIVE IntStr(_)
IntStr(n) ==
    IF n < 10 THEN Digits[n + 1] ELSE IntStr(n \div 10) \o Digits[(n % 10) + 1]

\* NetworkingStack._create_parameter_store_entries
NetworkingParameters(name, vpc_cidr) ==
    LET prefix == "/options-strategy/" \o name \o "/networking/"
    IN  << StringParameter("Networking", "VPCIdParameter",
                           prefix \o "vpc-id", "${vpc.vpc_id}"),
           StringParameter("Networking", "VPCCidrParameter",
                           prefix \o "vpc-cidr", vpc_cidr),
           StringParameter("Networking", "PublicSubnetIdsParameter",
                           prefix \o "public-subnet-ids", "${vpc.public_subnets}"),
           StringParameter("Networking", "PrivateSubnetIdsParameter",
                           prefix \o "private-subnet-ids", "${vpc.private_subnets}"),
           StringParameter("Networking", "IsolatedSubnetIdsParameter",
                           prefix \o "isolated-subnet-ids", "${vpc.isolated_subnets}"),
           StringParameter("Networking", "AvailabilityZonesParameter",
                           prefix \o "availability-zones",
                           "${vpc.availability_zones}") >>

\* SecurityStack._create_security_groups: the keys of self.security_groups
SecurityGroupNames == <<"alb", "app", "db", "cache", "management", "internal">>

\* SecurityStack._create_parameter_store_entries
SecurityParameters(name) ==
    [i \in 1..Len(SecurityGroupNames) |->
        StringParameter("Security", SecurityGroupNames[i],
            "/options-strategy/" \o name \o "/security/" \o SecurityGroupNames[i]
                \o "-security-group-id",
            "${security_groups." \o SecurityGroupNames[i] \o ".security_group_id}")]

\* MonitoringStack._create_notification_topics: the keys of
\* self.notification_topics
NotificationTopicNames == <<"critical", "warning", "cost", "security">>

\* MonitoringStack._create_log_insights_queries: the names of the queries
LogInsightsQueryNames == <<"ErrorAnalysis", "PerformanceAnalysis",
                           "TradingVolumeAnalysis">>

\* MonitoringStack._create_log_insights_queries: one parameter per query
LogInsightsQueryParameters(name) ==
    [i \in 1..Len(LogInsightsQueryNames) |->
        StringParameter("Monitoring", "LogInsightsQuery" \o IntStr(i - 1),
            "/options-strategy/" \o name \o "/monitoring/queries/"
                \o LogInsightsQueryNames[i],
            "${queries." \o LogInsightsQueryNames[i] \o "}")]

\* MonitoringStack._create_parameter_store_entries
MonitoringParameters(name) ==
    LET prefix == "/options-strategy/" \o name \o "/monitoring/"
    IN  << StringParameter("Monitoring", "ExecutiveDashboardURL",
                           prefix \o "dashboards/executive-url",
                           "${dashboards.executive.url}"),
           StringParameter("Monitoring", "OperationsDashboardURL",
                           prefix \o "dashboards/operations-url",
                           "${dashboards.operations.url}"),
           StringParameter("Monitoring", "TechnicalDashboardURL",
                           prefix \o "dashboards/technical-url",
                           "${dashboards.technical.url}") >>
        \o [i \in 1..Len(NotificationTopicNames) |->
               StringParameter("Monitoring", NotificationTopicNames[i],
                   prefix \o "sns/" \o NotificationTopicNames[i] \o "-topic-arn",
                   "${notification_topics." \o NotificationTopicNames[i]
                       \o ".topic_arn}")]

\* ConfigurationStack._get_environment_parameters
_get_environment_parameters(config) ==
    << <<"environment", config.env_name>>,
       <<"region", config.aws_region>>,
       <<"account", IF config.aws_account = None THEN "default"
                    ELSE config.aws_account[1]>>,
       <<"vpc/cidr", config.networking.vpc_cidr>>,
       <<"vpc/max-azs", IntStr(config.networking.max_azs)>>,
       <<"vpc/enable-nat-gateway", BoolLower(config.networking.enable_nat_gateway)>>,
       <<"lambda/memory-size", IntStr(config.resources.lambda_memory_size)>>,
       <<"lambda/timeout", IntStr(config.resources.lambda_timeout)>>,
       <<"ecs/cpu", IntStr(config.resources.ecs_cpu)>>,
       <<"ecs/memory", IntStr(config.resources.ecs_memory)>>,
       <<"monitoring/log-retention-days",
         IntStr(config.monitoring.log_retention_days)>>,
       <<"monitoring/enable-xray", BoolLower(config.monitoring.enable_xray_tracing)>>,
       <<"monitoring/enable-detailed",
         BoolLower(config.monitoring.enable_detailed_monitoring)>>,
       <<"security/enable-waf", BoolLower(config.security.enable_waf)>>,
       <<"security/enable-encryption",
         BoolLower(config.security.enable_encryption_at_rest)>>,
       <<"compliance/data-residency", config.compliance.data_residency_region>>,
       <<"compliance/backup-retention",
         IntStr(config.compliance.backup_retention_days)>>,
       <<"cost/enable-spot", BoolLower(config.cost_optimization.enable_spot_instances)>>,
       <<"cost/enable-lifecycle",
         BoolLower(config.cost_optimization.enable_lifecycle_policies)>> >>

\* ConfigurationStack._get_secure_parameters
_get_secure_parameters(config) ==
    << <<"database/connection-string", "placeholder-will-be-updated-by-rds-stack">>,
       <<"database/read-replica-string", "placeholder-will-be-updated-by-rds-stack">>,
       <<"cache/redis-endpoint", "placeholder-will-be-updated-by-cache-stack">>,
       <<"api/trading-api-key", "placeholder-update-after-deployment">>,
       <<"api/market-data-key", "placeholder-update-after-deployment">>,
       <<"notifications/email-endpoint",
         IF config.monitoring.alarm_notification_email = None
         THEN "admin@example.com"
         ELSE config.monitoring.alarm_notification_email[1]>>,
       <<"encryption/data-key", "placeholder-will-be-generated">> >>

\* the parameter_name arguments of _create_parameter_store_entries
EnvironmentParameterPath(config, param_name) ==
    get_parameter_store_prefix(config) \o "/" \o param_name
SecureParameterPath(config, param_name) ==
    get_parameter_store_prefix(config) \o "/secure/" \o param_name
FeatureFlagPath(config, flag_name) ==
    get_parameter_store_prefix(config) \o "/features/" \o flag_name
CustomParameterPath_features(config, param_name) ==
    get_parameter_store_prefix(config) \o "/features/" \o param_name
CustomParameterPath(config, param_name) ==
    get_parameter_store_prefix(config) \o "/custom/" \o param_name

\* ConfigurationStack._create_parameter_store_entries: the constructs in
\* creation order, each under its key of the returned dict
ConfigurationParameters(config) ==
    LET env_params == _get_environment_parameters(config)
        secure_params == _get_secure_parameters(config)
        flags == config.feature_flags
        custom == config.custom_parameters
    IN  [i \in 1..Len(env_params) |->
            StringParameter("Configuration", env_params[i][1],
                EnvironmentParameterPath(config, env_params[i][1]),
                env_params[i][2])]
        \o [i \in 1..Len(secure_params) |->
               StringParameter("Configuration", "secure_" \o secure_params[i][1],
                   SecureParameterPath(config, secure_params[i][1]),
                   secure_params[i][2])]
        \o [i \in 1..Len(flags) |->
               StringParameter("Configuration", "feature_" \o flags[i][1],
                   FeatureFlagPath(config, flags[i][1]),
                   BoolLower(flags[i][2]))]
        \o [i \in 1..Len(custom) |->
               StringParameter("Configuration", "custom_" \o custom[i][1],
                   CustomParameterPath(config, custom[i][1]),
                   custom[i][2])]

\* the construct ids of _create_parameter_store_entries
EnvironmentParameterId(param_name) ==
    "Parameter" \o StrTitle(StrDelete(StrDelete(param_name, "/"), "-"))
SecureParameterId(param_name) ==
    "SecureParameter" \o StrTitle(StrDelete(StrDelete(param_name, "/"), "-"))
FeatureFlagId(flag_name) == "FeatureFlag" \o StrTitle(StrDelete(flag_name, "_"))
CustomParameterId(param_name) ==
    "CustomParameter" \o StrTitle(StrDelete(param_name, "_"))

\* the ids in creation order, one per construct of ConfigurationParameters
ConfigurationParameterIds(config) ==
    LET env_params == _get_environment_parameters(config)
        secure_params == _get_secure_parameters(config)
        flags == config.feature_flags
        custom == config.custom_parameters
    IN  [i \in 1..Len(env_params) |-> EnvironmentParameterId(env_params[i][1])]
        \o [i \in 1..Len(secure_params) |-> SecureParameterId(secure_params[i][1])]
        \o [i \in 1..Len(flags) |-> FeatureFlagId(flags[i][1])]
        \o [i \in 1..Len(custom) |-> CustomParameterId(custom[i][1])]

\* constructs.Node.add_child: a second child with an id already in the scope
\* raises RuntimeError
HasDuplicate(ids) == \E i, j \in 1..Len(ids) : i < j /\ ids[i] = ids[j]

\* ConfigurationStack._create_configuration_backup
ConfigurationBackupParameters(config) ==
    << StringParameter("Configuration", "ConfigurationBackupStatus",
                       get_parameter_store_prefix(config) \o "/backup/status",
                       "enabled") >>

\* ConfigurationStack._create_vpc_endpoints
VpcEndpointsParameters(config) ==
    << StringParameter("Configuration", "VPCEndpointsEnabled",
                       get_parameter_store_prefix(config) \o "/vpc/endpoints-enabled",
                       "true") >>

\* ConfigurationStack.get_parameter_arn: the ARN is built from the name it is
\* given; self.parameters is not consulted and nothing is raised
get_parameter_arn(config, parameter_name) ==
    LET full_name == get_parameter_store_prefix(config) \o "/" \o parameter_name
    IN  [raises |-> "none",
         value |-> "arn:aws:ssm:${AWS::Region}:${AWS::AccountId}:parameter"
                   \o full_name]

\* a group of resources of a stack and the tags Tags.of(scope).add gave it;
\* a tag added on an inner scope replaces the tag of the same key added on
\* an enclosing scope
Tagged(scope, tags) == [scope |-> scope, tags |-> tags]

\* OptionsStrategyVPC._apply_vpc_tags: tags_config
VpcStandardTags(name) ==
    << <<"Name", "options-strategy-vpc-" \o name>>,
       <<"Environment", name>>,
       <<"Project", "OptionsStrategyPlatform">>,
       <<"Component", "Networking">>,
       <<"DataResidency", "india">>,
       <<"Compliance", "indian-market-data">>,
       <<"CostCenter", "trading-systems">>,
       <<"Owner", "platform-team">>,
       <<"ManagedBy", "CDK">>,
       <<"Region", "ap-south-1">> >>

VpcEnvironmentTags_no_staging(name) ==
    IF name = "prod"
    THEN << <<"Criticality", "High">>, <<"BackupRequired", "True">> >>
    ELSE << <<"Criticality", "Low">>, <<"BackupRequired", "False">>,
            <<"AutoShutdown", "True">> >>

\* OptionsStrategyVPC._apply_vpc_tags: the environment-specific tags
VpcEnvironmentTags(name) ==
    IF name = "prod"
    THEN << <<"Criticality", "High">>, <<"BackupRequired", "True">> >>
    ELSE IF name = "staging"
    THEN << <<"Criticality", "Medium">>, <<"BackupRequired", "False">> >>
    ELSE << <<"Criticality", "Low">>, <<"BackupRequired", "False">>,
            <<"AutoShutdown", "True">> >>

\* OptionsStrategyVPC._apply_vpc_tags: all tags added to self.vpc
_apply_vpc_tags(name) ==
    DictSetAll(DictSetAll(<<>>, VpcStandardTags(name)), VpcEnvironmentTags(name))

\* NetworkingStack: the VPC carries the tags of _apply_vpc_tags; the flow-log
\* role and log group and the parameters are created on the stack, which
\* adds no tag
NetworkingResources(name) ==
    << Tagged("OptionsStrategyVPC", _apply_vpc_tags(name)), Tagged("stack", <<>>) >>

\* IAMStack._apply_standard_tags
IAMStackTags(name) ==
    << <<"Project", "OptionsStrategyPlatform">>,
       <<"Environment", name>>,
       <<"Owner", "platform-team">>,
       <<"CostCenter", "trading-systems">>,
       <<"DataResidency", "india">>,
       <<"ManagedBy", "CDK">>,
       <<"Stack", "IAM">>,
       <<"Component", "security">> >>

\* OptionsStrategyIAMConstruct._apply_standard_tags
IAMConstructTags(name) ==
    << <<"Project", "OptionsStrategyPlatform">>,
       <<"Environment", name>>,
       <<"Owner", "platform-team">>,
       <<"CostCenter", "trading-systems">>,
       <<"DataResidency", "india">>,
       <<"ManagedBy", "CDK">>,
       <<"Component", "iam-construct">> >>

\* IAMStack: the roles of the stack and the roles of its IAM construct
IAMResources(name) ==
    << Tagged("stack", DictSetAll(<<>>, IAMStackTags(name))),
       Tagged("OptionsStrategyIAM",
              DictSetAll(DictSetAll(<<>>, IAMStackTags(name)), IAMConstructTags(name))) >>

\* ConfigurationStack._apply_standard_tags
ConfigurationStackTags(config) ==
    DictSetAll(DictSetAll(<<>>, config.resource_tags),
               << <<"Stack", "Configuration">>, <<"Component", "config-management">> >>)

\* the names a client asks ConfigurationStack.get_parameter_arn for
ParameterNameInputs == {"vpc/cidr", "features/enable_rate_limiting",
                        "never/written", "networking/vpc-id"}

\* the classes of the stacks constructed so far
ModuleNames == {modules[i].name : i \in 1..Len(modules)}

Built(m) == m \in ModuleNames

\* a stack constructor that creates the parameters `created`; `resources` are
\* the groups of resources it creates with the tags each group carries
Construct(m, log, groups, resources, created) ==
    /\ ~Built(m)
    /\ modules' = Append(modules, [name |-> m, log |-> log, groups |-> groups,
                                   resources |-> resources])
    /\ ssm' = ssm \o created
    /\ UNCHANGED <<environ, registry, call, pc, env_name, env_config,
                   validation_errors, stdout, exit_code, raised, stack>>

\* NetworkingStack(app, id, env_name=..., vpc_cidr=..., max_azs=...)
NetworkingStackInit ==
    /\ pc = "compose"
    /\ Construct("Networking", <<>>, <<>>, NetworkingResources(env_name[1]),
          NetworkingParameters(env_name[1], env_config[1].networking.vpc_cidr))

\* sg.add_ingress_rule(peer=..., connection=...)
IngressRule(peer, connection) == [peer |-> peer, connection |-> connection]

\* SecurityStack._create_security_groups with allowed_cidr_blocks = []: the
\* dict of the groups, each with its construct id and its ingress rules
_create_security_groups ==
    << <<"alb", [id |-> "ALBSecurityGroup",
                 ingress |-> << IngressRule("0.0.0.0/0", "tcp:443"),
                                IngressRule("0.0.0.0/0", "tcp:80") >>]>>,
       <<"app", [id |-> "AppSecurityGroup",
                 ingress |-> << IngressRule("alb", "tcp:8080"),
                                IngressRule("alb", "tcp:8443"),
                                IngressRule("alb", "tcp:8081"),
                                IngressRule("app", "tcp:all") >>]>>,
       <<"db", [id |-> "DatabaseSecurityGroup",
                ingress |-> << IngressRule("app", "tcp:5432"),
                               IngressRule("app", "tcp:6379"),
                               IngressRule("app", "tcp:3306"),
                               IngressRule("db", "tcp:5432") >>]>>,
       <<"cache", [id |-> "CacheSecurityGroup",
                   ingress |-> << IngressRule("app", "tcp:11211"),
                                  IngressRule("app", "tcp:6379"),
                                  IngressRule("cache", "tcp:6379-6380") >>]>>,
       <<"management", [id |-> "ManagementSecurityGroup",
                        ingress |-> << IngressRule("203.0.113.0/24", "tcp:22") >>]>>,
       <<"internal", [id |-> "InternalSecurityGroup",
                      ingress |-> << IngressRule("internal", "all") >>]>> >>

\* SecurityStack(app, id, vpc=networking.vpc, env_name=...)
SecurityStackInit ==
    /\ pc = "compose"
    /\ Built("Networking")
    /\ Construct("Security", <<>>, _create_security_groups, <<Tagged("stack", <<>>)>>,
                 SecurityParameters(env_name[1]))

\* IAMStack(app, id, env_name=...): creates roles and policies, no parameter
IAMStackInit ==
    /\ pc = "compose"
    /\ Construct("Identity", <<>>, <<>>, IAMResources(env_name[1]), <<>>)

\* ConfigurationStack(app, id, env_config, vpc=..., iam_roles=...): vpc is
\* None or the VPC of the NetworkingStack
ConfigurationStackInit ==
    /\ pc = "compose"
    /\ ~Built("Configuration")
    /\ IF HasDuplicate(ConfigurationParameterIds(env_config[1]))
       THEN /\ Exit1("RuntimeError")
            /\ UNCHANGED <<environ, registry, call, env_name, env_config,
                           validation_errors, stdout, stack, modules, ssm>>
       ELSE \E vpc \in IF Built("Networking") THEN {None, Some("vpc")} ELSE {None} :
              Construct("Configuration", <<>>, <<>>,
                  <<Tagged("stack", ConfigurationStackTags(env_config[1]))>>,
                  ConfigurationParameters(env_config[1])
                  \o (IF is_production(env_config[1])
                      THEN ConfigurationBackupParameters(env_config[1]) ELSE <<>>)
                  \o (IF vpc # None /\ env_config[1].security.enable_vpc_endpoints
                      THEN VpcEndpointsParameters(env_config[1]) ELSE <<>>))

\* MonitoringStack.__init__: the attributes assigned from the arguments and
\* the construction steps, in statement order
MonitoringInitAttrs == {"env_name", "vpc", "notification_email",
                        "enable_detailed_monitoring", "enable_cost_alerts"}

MonitoringSteps_dashboards_first ==
    << "_create_notification_topics",
       "_create_cloudwatch_dashboards",
       "_create_monitoring_log_groups",
       "_create_cloudwatch_alarms",
       "_create_log_insights_queries",
       "_create_custom_metrics",
       "_create_monitoring_functions",
       "_create_monitoring_automation",
       "_create_parameter_store_entries",
       "_create_stack_outputs" >>

MonitoringSteps ==
    << "_create_notification_topics",
       "_create_monitoring_log_groups",
       "_create_cloudwatch_alarms",
       "_create_cloudwatch_dashboards",
       "_create_log_insights_queries",
       "_create_custom_metrics",
       "_create_monitoring_functions",
       "_create_monitoring_automation",
       "_create_parameter_store_entries",
       "_create_stack_outputs" >>

\* the attributes of self a step of MonitoringStack reads
MonitoringStepReads(step) ==
    CASE step = "_create_notification_topics" -> {"env_name", "notification_email"}
      [] step = "_create_monitoring_log_groups" -> {"env_name"}
      [] step = "_create_cloudwatch_alarms" ->
            {"env_name", "notification_topics", "vpc", "enable_cost_alerts"}
      [] step = "_create_cloudwatch_dashboards" ->
            {"env_name", "vpc", "monitoring_log_groups"}
      [] step = "_create_log_insights_queries" -> {"env_name", "monitoring_log_groups"}
      [] step = "_create_custom_metrics" -> {"monitoring_log_groups"}
      [] step = "_create_monitoring_functions" -> {"env_name"}
      [] step = "_create_monitoring_automation" ->
            {"env_name", "monitoring_functions", "monitoring_log_groups"}
      [] step = "_create_parameter_store_entries" ->
            {"env_name", "dashboards", "notification_topics"}
      [] step = "_create_stack_outputs" ->
            {"env_name", "dashboards", "notification_topics", "monitoring_functions"}

\* the attribute of self the return value of a step is assigned to
MonitoringStepAssigns(step) ==
    CASE step = "_create_notification_topics" -> {"notification_topics"}
      [] step = "_create_monitoring_log_groups" -> {"monitoring_log_groups"}
      [] step = "_create_cloudwatch_alarms" -> {"alarms"}
      [] step = "_create_cloudwatch_dashboards" -> {"dashboards"}
      [] step = "_create_monitoring_functions" -> {"monitoring_functions"}
      [] OTHER -> {}

\* the steps that run, in order, until one reads an attribute that was never
\* assigned (AttributeError)
RECURSIVE MonitoringStepsRun(_, _)
MonitoringStepsRun(steps, attrs) ==
    IF steps = <<>> \/ ~(MonitoringStepReads(Head(steps)) \subseteq attrs)
    THEN <<>>
    ELSE <<Head(steps)>>
         \o MonitoringStepsRun(Tail(steps),
                               attrs \cup MonitoringStepAssigns(Head(steps)))

\* MonitoringStack(app, id, env_name=..., vpc=...): vpc is optional
MonitoringStackInit ==
    /\ pc = "compose"
    /\ LET ran == MonitoringStepsRun(MonitoringSteps, MonitoringInitAttrs)
       IN  IF ran = MonitoringSteps
           THEN Construct("Monitoring", ran, <<>>, <<Tagged("stack", <<>>)>>,
                          LogInsightsQueryParameters(env_name[1])
                          \o MonitoringParameters(env_name[1]))
           ELSE /\ ~Built("Monitoring")
                /\ Exit1("AttributeError")
                /\ UNCHANGED <<environ, registry, call, env_name, env_config,
                               validation_errors, stdout, stack, modules, ssm>>

\* config_stack.get_parameter_arn(parameter_name)
GetParameterArn ==
    /\ pc = "compose"
    /\ Built("Configuration")
    /\ \E parameter_name \in ParameterNameInputs :
          call' = [fn |-> "get_parameter_arn", arg |-> Some(parameter_name),
                   source |-> None,
                   result |-> get_parameter_arn(env_config[1], parameter_name)]
    /\ UNCHANGED <<environ, registry, pc, env_name, env_config, validation_errors,
                   stdout, exit_code, raised, stack, modules, ssm>>

\* the names clients ask SecurityStack for
SecurityGroupNameInputs == Range(SecurityGroupNames) \cup {"lambda", "database", ""}

MaxAddedRules == 1

\* the number of ingress rules of all groups
IngressRuleCount(groups) ==
    Cardinality(UNION { {<<i, j>> : j \in 1..Len(groups[i][2].ingress)} :
                        i \in 1..Len(groups) })

\* self.security_groups of the SecurityStack
security_groups == modules[CHOOSE m \in 1..Len(modules) : modules[m].name = "Security"].groups

\* a handler that answers an unknown name with the first group
get_security_group_lenient(groups, name) ==
    IF name \notin DictKeySet(groups)
    THEN [raises |-> "none", value |-> Some(groups[1][2].id)]
    ELSE [raises |-> "none", value |-> Some(DictGet(groups, name).id)]

\* SecurityStack.get_security_group(name)
get_security_group(groups, name) ==
    IF name \notin DictKeySet(groups)
    THEN [raises |-> "KeyError", value |-> None]
    ELSE [raises |-> "none", value |-> Some(DictGet(groups, name).id)]

GetSecurityGroup ==
    /\ pc = "compose"
    /\ Built("Security")
    /\ \E name \in SecurityGroupNameInputs :
          call' = [fn |-> "get_security_group", arg |-> Some(name), source |-> None,
                   result |-> get_security_group(security_groups, name)]
    /\ UNCHANGED <<environ, registry, pc, env_name, env_config, validation_errors,
                   stdout, exit_code, raised, stack, modules, ssm>>

\* SecurityStack.add_ingress_rule_to_group(group_name, peer, connection,
\* description): sg = self.get_security_group(group_name) raises before any
\* rule is added
AddIngressRuleToGroup ==
    /\ pc = "compose"
    /\ Built("Security")
    /\ IngressRuleCount(security_groups)
          < IngressRuleCount(_create_security_groups) + MaxAddedRules
    /\ \E group_name \in SecurityGroupNameInputs :
          LET sg == get_security_group(security_groups, group_name)
              rule == IngressRule("10.0.0.0/8", "tcp:9000")
              m == CHOOSE k \in 1..Len(modules) : modules[k].name = "Security"
              i == CHOOSE k \in 1..Len(security_groups) :
                      security_groups[k][2].id = sg.value[1]
          IN  /\ call' = [fn |-> "add_ingress_rule_to_group",
                          arg |-> Some(group_name), source |-> None,
                          result |-> [sg EXCEPT !.value = None]]
              /\ IF sg.raises = "none"
                 THEN modules' = [modules EXCEPT
                                    ![m].groups[i][2].ingress = Append(@, rule)]
                 ELSE UNCHANGED modules
    /\ UNCHANGED <<environ, registry, pc, env_name, env_config, validation_errors,
                   stdout, exit_code, raised, stack, ssm>>

\* the client resolved its configuration with get_environment_config(id)
InitStacks ==
    /\ environ \in {e \in Environs : e["CDK_ENVIRONMENT"] = None}
    /\ registry \in Registries(environ)
    /\ call = NoCall
    /\ pc = "compose"
    /\ \E id \in EnvironmentIds :
          /\ env_name = Some(id)
          /\ env_config = get_environment_config(registry, Some(id), environ).config
    /\ validation_errors = None
    /\ stdout = <<>>
    /\ exit_code = None
    /\ raised = "none"
    /\ stack = NoStack
    /\ modules = <<>>
    /\ ssm = <<>>

NextStacks ==
    \/ NetworkingStackInit
    \/ SecurityStackInit
    \/ IAMStackInit
    \/ ConfigurationStackInit
    \/ MonitoringStackInit
    \/ GetParameterArn

\* a synthesis run is a run of main() or a composition of the modular stacks
InitSynthesis == Init \/ InitStacks
NextSynthesis == Next \/ NextStacks
SpecSynthesis == InitSynthesis /\ [][NextSynthesis]_vars
-----------------------------------------------------------------------------
(* simple_app.py: main(), and infrastructure/simple_app.py:                 *)
(* SimpleOptionsStrategyStack.  The CDK context (cdk synth -c key=value) is *)
(* the argument of the run.                                                 *)

ContextEnvInputs == {None, Some(""), Some("dev"), Some("staging"), Some("prod"),
                     Some("qa")}
ContextRegionInputs == {None, Some(""), Some("ap-south-1"), Some("us-east-1")}
ContextAccountInputs == {None, Some("210987654321")}

Contexts == [env : ContextEnvInputs, region : ContextRegionInputs,
             account : ContextAccountInputs]

\* "value or default": None and the empty string are falsy
OrDefault(value, default) ==
    IF value = None \/ value = Some("") THEN default ELSE value

\* SimpleOptionsStrategyStack._apply_standard_tags
SimpleStandardTags(name) ==
    << <<"Project", "OptionsStrategyPlatform">>,
       <<"Environment", name>>,
       <<"Region", "ap-south-1">>,
       <<"DataResidency", "India">>,
       <<"CostCenter", "Trading">>,
       <<"Owner", "TradingTeam">> >>

\* SimpleOptionsStrategyStack._create_parameter_store: parameters
simple_parameters(vpc_cidr) ==
    << <<"vpc-id", "${vpc.vpc_id}">>,
       <<"vpc-cidr", vpc_cidr>>,
       <<"public-subnet-ids", "${vpc.public_subnets}">>,
       <<"private-subnet-ids", "${vpc.private_subnets}">>,
       <<"isolated-subnet-ids", "${vpc.isolated_subnets}">>,
       <<"alb-sg-id", "${alb_sg.security_group_id}">>,
       <<"app-sg-id", "${app_sg.security_group_id}">>,
       <<"db-sg-id", "${db_sg.security_group_id}">>,
       <<"lambda-role-arn", "${lambda_role.role_arn}">>,
       <<"ecs-execution-role-arn", "${ecs_execution_role.role_arn}">>,
       <<"ecs-task-role-arn", "${ecs_task_role.role_arn}">> >>

\* f"Parameter{key.replace('-', '').title()}"
SimpleParameterId(key) == "Parameter" \o StrTitle(StrDelete(key, "-"))

SimpleParameters(name, vpc_cidr) ==
    LET params == simple_parameters(vpc_cidr)
    IN  [i \in 1..Len(params) |->
            StringParameter("Simple", SimpleParameterId(params[i][1]),
                            "/options-strategy/" \o name \o "/" \o params[i][1],
                            params[i][2])]

\* the construction steps of SimpleOptionsStrategyStack.__init__
SimpleSteps ==
    << "simple._apply_standard_tags",
       "simple._create_vpc",
       "simple._create_iam_resources",
       "simple._create_cloudwatch_resources",
       "simple._create_parameter_store",
       "simple._create_outputs" >>

SimpleStepAfter(step) ==
    LET i == CHOOSE k \in 1..Len(SimpleSteps) : SimpleSteps[k] = step
    IN  IF i < Len(SimpleSteps) THEN SimpleSteps[i + 1] ELSE "simple.synth"

\* the attributes of self a step of the simple stack reads and assigns
SimpleStepReads(step) ==
    CASE step = "simple._apply_standard_tags" -> {"env_name"}
      [] step = "simple._create_vpc" -> {"env_name", "vpc_cidr", "max_azs"}
      [] step = "simple._create_iam_resources" -> {"env_name"}
      [] step = "simple._create_cloudwatch_resources" -> {"env_name"}
      [] step = "simple._create_parameter_store" ->
            {"env_name", "vpc", "vpc_cidr", "alb_sg", "app_sg", "db_sg",
             "lambda_role", "ecs_execution_role", "ecs_task_role"}
      [] step = "simple._create_outputs" ->
            {"env_name", "vpc", "vpc_cidr", "lambda_role", "ecs_execution_role",
             "ecs_task_role"}

SimpleStepAssigns(step) ==
    CASE step = "simple._apply_standard_tags" -> {}
      [] step = "simple._create_vpc" -> {"vpc", "alb_sg", "app_sg", "db_sg"}
      [] step = "simple._create_iam_resources" ->
            {"lambda_role", "ecs_execution_role", "ecs_task_role"}
      [] step = "simple._create_cloudwatch_resources" ->
            {"app_log_group", "lambda_log_group", "api_log_group"}
      [] step = "simple._create_parameter_store" -> {}
      [] step = "simple._create_outputs" -> {}

\* simple_app.main has no handler: an exception ends the process with the
\* traceback and status 1
SimpleRunStep(step, tags, created) ==
    /\ IF SimpleStepReads(step) \subseteq stack.attrs
       THEN /\ stack' = [stack EXCEPT !.attrs = @ \cup SimpleStepAssigns(step),
                                      !.log = Append(@, step),
                                      !.tags = tags]
            /\ ssm' = ssm \o created
            /\ pc' = SimpleStepAfter(step)
            /\ UNCHANGED <<exit_code, raised>>
       ELSE /\ Exit1("AttributeError")
            /\ UNCHANGED <<stack, ssm>>
    /\ UNCHANGED <<environ, registry, call, env_name, env_config, validation_errors,
                   stdout, modules>>

\* main: app = App(); env_name, region, account; env = Environment(...);
\* SimpleOptionsStrategyStack.__init__ up to its first step
SimpleMain ==
    /\ pc = "simple.start"
    /\ LET context == call.arg
           name == OrDefault(context.env, Some("dev"))
           region == OrDefault(context.region, Some("ap-south-1"))
           account == OrDefault(context.account, environ["CDK_DEFAULT_ACCOUNT"])
       IN  /\ env_name' = name
           /\ stack' = [stack EXCEPT
                           !.made = TRUE,
                           !.env = Some(Environment(account, region[1])),
                           !.attrs = {"env_name", "vpc_cidr", "max_azs"}]
    /\ pc' = SimpleSteps[1]
    /\ UNCHANGED <<environ, registry, call, env_config, validation_errors, stdout,
                   exit_code, raised, modules, ssm>>

SimpleApplyStandardTags ==
    /\ pc = "simple._apply_standard_tags"
    /\ SimpleRunStep("simple._apply_standard_tags",
                     DictSetAll(stack.tags, SimpleStandardTags(env_name[1])), <<>>)

\* _create_vpc, _create_iam_resources, _create_cloudwatch_resources and
\* _create_outputs create resources and assign attributes of self
SimplePlainStep ==
    /\ pc \in {"simple._create_vpc", "simple._create_iam_resources",
               "simple._create_cloudwatch_resources", "simple._create_outputs"}
    /\ SimpleRunStep(pc, stack.tags, <<>>)

\* vpc_cidr="10.0.0.0/16" is the argument simple_app.main passes
SimpleCreateParameterStore ==
    /\ pc = "simple._create_parameter_store"
    /\ SimpleRunStep("simple._create_parameter_store", stack.tags,
                     SimpleParameters(env_name[1], "10.0.0.0/16"))

\* main: app.synth(), then main returns
SimpleSynth ==
    /\ pc = "simple.synth"
    /\ pc' = "done"
    /\ exit_code' = Some(0)
    /\ UNCHANGED <<environ, registry, call, env_name, env_config, validation_errors,
                   stdout, raised, stack, modules, ssm>>

\* a CDK call raises while the stack is built or synthesized
SimpleRaises ==
    /\ pc \in Range(SimpleSteps) \cup {"simple.synth"}
    /\ Exit1("Exception")
    /\ UNCHANGED <<environ, registry, call, env_name, env_config, validation_errors,
                   stdout, stack, modules, ssm>>

InitSimple ==
    /\ environ \in Environs
    /\ registry = _ENVIRONMENT_CONFIGS(environ)
    /\ call \in {[fn |-> "simple_app.main", arg |-> context, source |-> None,
                   result |-> None] : context \in Contexts}
    /\ pc = "simple.start"
    /\ env_name = None
    /\ env_config = None
    /\ validation_errors = None
    /\ stdout = <<>>
    /\ exit_code = None
    /\ raised = "none"
    /\ stack = NoStack
    /\ modules = <<>>
    /\ ssm = <<>>

NextSimple ==
    \/ SimpleMain
    \/ SimpleApplyStandardTags
    \/ SimplePlainStep
    \/ SimpleCreateParameterStore
    \/ SimpleSynth
    \/ SimpleRaises

\* a run through either entry point: app.py or simple_app.py
InitEntryPoints == Init \/ InitSimple
NextEntryPoints == Next \/ NextSimple
SpecEntryPoints == InitEntryPoints /\ [][NextEntryPoints]_vars
-----------------------------------------------------------------------------
(* Clients that hold several results of get_environment_config at once.     *)
(* heap is the sequence of EnvironmentConfig object graphs built so far; a  *)
(* result is a reference into it.  Every section and map of a preset is    *)
(* built inline in the factory, so one factory call is one object graph.    *)

MaxResults == 2
MaxChanges == 1

\* a table that keeps the object built for a name and hands it out again
NewObject_cached(heap, config) ==
    IF \E r \in 1..Len(heap) : heap[r].env_name = config.env_name
    THEN [heap |-> heap,
          ref |-> CHOOSE r \in 1..Len(heap) : heap[r].env_name = config.env_name]
    ELSE [heap |-> Append(heap, config), ref |-> Len(heap) + 1]

\* _ENVIRONMENT_CONFIGS[env_name](): the factory builds a new object graph
NewObject(heap, config) == [heap |-> Append(heap, config), ref |-> Len(heap) + 1]

\* what a client may change in a result it holds: a field of a section, an
\* entry of the tag map, an entry of the flag map
ClientChanges == {"section", "tag", "flag"}

ClientChange(config, change) ==
    CASE change = "section" -> [config EXCEPT !.security.kms_key_rotation = FALSE]
      [] change = "tag" ->
            [config EXCEPT !.resource_tags = DictSet(@, "Owner", "client")]
      [] change = "flag" ->
            [config EXCEPT !.feature_flags = DictSet(@, "enable_rate_limiting", FALSE)]

NoResults == [heap |-> <<>>, returned |-> <<>>, changes |-> 0]

\* config = get_environment_config(name)
ClientGetEnvironmentConfig ==
    /\ pc = "clients"
    /\ Len(call.result.returned) < MaxResults
    /\ \E name \in EnvironmentIds :
          LET got == get_environment_config(registry, Some(name), environ)
              new == NewObject(call.result.heap, got.config[1])
          IN  call' = [fn |-> "get_environment_config", arg |-> Some(name),
                       source |-> None,
                       result |-> [call.result EXCEPT
                                     !.heap = new.heap,
                                     !.returned = Append(@, new.ref)]]
    /\ UNCHANGED <<environ, registry, pc, env_name, env_config, validation_errors,
                   stdout, exit_code, raised, stack, modules, ssm>>

\* the client changes the result it got from its i-th call
ClientModifies ==
    /\ pc = "clients"
    /\ call.result.changes < MaxChanges
    /\ \E i \in 1..Len(call.result.returned), change \in ClientChanges :
          LET ref == call.result.returned[i]
          IN  call' = [fn |-> "modify", arg |-> Some(i), source |-> Some(change),
                       result |-> [call.result EXCEPT
                                     !.heap[ref] = ClientChange(@, change),
                                     !.changes = @ + 1]]
    /\ UNCHANGED <<environ, registry, pc, env_name, env_config, validation_errors,
                   stdout, exit_code, raised, stack, modules, ssm>>

InitClients ==
    /\ environ \in {e \in Environs : e["CDK_ENVIRONMENT"] = None}
    /\ registry = _ENVIRONMENT_CONFIGS(environ)
    /\ call = [NoCall EXCEPT !.result = NoResults]
    /\ pc = "clients"
    /\ env_name = None
    /\ env_config = None
    /\ validation_errors = None
    /\ stdout = <<>>
    /\ exit_code = None
    /\ raised = "none"
    /\ stack = NoStack
    /\ modules = <<>>
    /\ ssm = <<>>

NextClients ==
    \/ ClientGetEnvironmentConfig
    \/ ClientModifies

SpecClients == InitClients /\ [][NextClients]_vars

-----------------------------------------------------------------------------
(* config/environments.py: clients that construct an EnvironmentConfig      *)
(* themselves, with the tag and flag mappings they choose.                   *)

ResourceTagInputs ==
    { <<>>,
      << <<"Owner", "client">> >>,
      << <<"Environment", "other">>, <<"Region", "eu-west-1">> >>,
      << <<"Team", "desk">>, <<"Project", "Client">> >> }

FeatureFlagInputs ==
    { <<>>,
      << <<"enable_multi_az", FALSE>> >>,
      << <<"enable_rate_limiting", FALSE>>, <<"enable_dark_mode", TRUE>> >> }

\* EnvironmentConfig(env_name=..., aws_region=..., resource_tags=...,
\* feature_flags=..., ...): call.arg keeps what was supplied
ConstructEnvironmentConfig ==
    /\ pc = "library"
    /\ call.fn = "none"
    /\ \E name \in EnvironmentIds, region \in RegionInputs,
          tags \in ResourceTagInputs, flags \in FeatureFlagInputs :
          call' = [fn |-> "EnvironmentConfig",
                   arg |-> Some([env_name |-> name, aws_region |-> region,
                                 resource_tags |-> tags, feature_flags |-> flags]),
                   source |-> None,
                   result |->
                       EnvironmentConfig(name, environ["CDK_DEFAULT_ACCOUNT"], region,
                           NetworkingConfig("10.2.0.0/16", 2, TRUE),
                           SecurityConfig(FALSE, FALSE, FALSE, FALSE),
                           MonitoringConfig(7, FALSE, TRUE, FALSE, None),
                           ResourceConfig(512, 30, 256, 512, "db.t3.micro", 20,
                                          "cache.t3.micro"),
                           ComplianceConfig("ap-south-1", TRUE, 7, FALSE, FALSE),
                           CostOptimizationConfig(TRUE, FALSE, TRUE, FALSE),
                           tags, flags, <<>>)]
    /\ UNCHANGED <<environ, registry, pc, env_name, env_config, validation_errors,
                   stdout, exit_code, raised, stack, modules, ssm>>

SpecConstruction == InitCalls /\ [][ConstructEnvironmentConfig]_vars

\* clients of a SecurityStack
NextSecurity ==
    \/ NetworkingStackInit
    \/ SecurityStackInit
    \/ GetSecurityGroup
    \/ AddIngressRuleToGroup

SpecSecurity == InitStacks /\ [][NextSecurity]_vars
-----------------------------------------------------------------------------
(* Properties *)

StackStarted == stack.made \/ ssm # <<>>

\* C1: in a run of main the stack is created only after
\* validate_environment_config returned an empty list for the resolved
\* configuration, and a run with a non-empty list of findings has ended
\* with nothing created.
C1_StackOnlyAfterCleanValidation ==
    /\ (StackStarted \/ pc \in (TryBlock \ {"start"}) \cup {"done"})
          => /\ env_config # None
             /\ validation_errors = Some(<<>>)
    /\ (validation_errors # None /\ validation_errors[1] # <<>>)
          => /\ pc = "exited"
             /\ exit_code = Some(1)
             /\ ~StackStarted

C1_Witness ==
    /\ validation_errors # None
    /\ validation_errors[1] # <<>>
    /\ pc = "exited"
    /\ ~StackStarted

\* C2: validate_environment_config returns, for every configuration, exactly
\* the findings of the violated rules, one each, in the order region, VPC
\* CIDR, AZ count, WAF, deletion protection, log retention, Lambda memory;
\* so it is empty exactly when no rule is violated.
C2_RuleOrder == <<"region", "cidr", "az", "waf", "deletion_protection",
                  "log_retention", "lambda_memory">>

C2_Violated(rule, c) ==
    CASE rule = "region" -> c.aws_region # "ap-south-1"
      [] rule = "cidr" ->
            ~(Len(c.networking.vpc_cidr) >= 3
              /\ SubSeq(c.networking.vpc_cidr, Len(c.networking.vpc_cidr) - 2,
                        Len(c.networking.vpc_cidr)) = "/16")
      [] rule = "az" -> c.env_name = "prod" /\ c.networking.max_azs < 3
      [] rule = "waf" -> c.env_name = "prod" /\ ~c.security.enable_waf
      [] rule = "deletion_protection" ->
            c.env_name = "prod" /\ ~c.compliance.enable_deletion_protection
      [] rule = "log_retention" ->
            c.env_name = "prod" /\ c.monitoring.log_retention_days < 90
      [] rule = "lambda_memory" ->
            c.env_name = "prod" /\ c.resources.lambda_memory_size < 1024

C2_Finding(rule, c) ==
    CASE rule = "region" -> RegionFinding(c)
      [] rule = "cidr" -> CidrFinding(c)
      [] rule = "az" -> AzFinding
      [] rule = "waf" -> WafFinding
      [] rule = "deletion_protection" -> DeletionProtectionFinding
      [] rule = "log_retention" -> LogRetentionFinding
      [] rule = "lambda_memory" -> LambdaMemoryFinding

C2_Expected(c) ==
    LET Test(rule) == C2_Violated(rule, c)
        violated == SelectSeq(C2_RuleOrder, Test)
    IN  [i \in 1..Len(violated) |-> C2_Finding(violated[i], c)]

C2_AllFindingsInRuleOrder ==
    call.fn = "validate_environment_config"
        => call.result = C2_Expected(call.arg)

C2_Witness ==
    /\ call.fn = "validate_environment_config"
    /\ Len(call.result) = Len(C2_RuleOrder)

\* C3: the configuration get_environment_config("prod") returns passes
\* validate_environment_config with no finding.
C3_ProdPresetValid ==
    (call.fn = "validate_environment_config" /\ call.source = Some("prod"))
        => call.result = <<>>

C3_Witness ==
    /\ call.fn = "validate_environment_config"
    /\ call.source = Some("prod")
    /\ call.arg.env_name = "prod"
    /\ call.result = <<>>

\* the identifier a call of get_environment_config resolves
C_ResolvedName ==
    IF call.arg # None THEN call.arg[1]
    ELSE IF environ["CDK_ENVIRONMENT"] # None THEN environ["CDK_ENVIRONMENT"][1]
    ELSE "dev"

\* C4: for each identifier of {dev, staging, prod} get_environment_config
\* returns a configuration whose aws_region is ap-south-1 and whose VPC CIDR
\* has prefix length /16.
C4_PresetsRegionAndPrefix ==
    (call.fn = "get_environment_config" /\ C_ResolvedName \in {"dev", "staging", "prod"})
        => /\ call.result.raises = "none"
           /\ call.result.config # None
           /\ call.result.config[1].env_name = C_ResolvedName
           /\ call.result.config[1].aws_region = "ap-south-1"
           /\ LET cidr == call.result.config[1].networking.vpc_cidr
              IN  /\ Len(cidr) > 3
                  /\ SubSeq(cidr, Len(cidr) - 2, Len(cidr)) = "/16"

C4_Witness ==
    /\ call.fn = "get_environment_config"
    /\ call.arg = Some("staging")
    /\ call.result.raises = "none"
    /\ call.result.config[1].aws_region = "ap-south-1"

\* C5: for a prod configuration the AZ-count finding is returned when
\* max_azs is below 3 and is not returned when max_azs is 3 or more,
\* whatever the other fields are.
C5_AzFindingBoundary ==
    (call.fn = "validate_environment_config" /\ call.arg.env_name = "prod")
        => (AzFinding \in Range(call.result) <=> call.arg.networking.max_azs < 3)

C5_Witness ==
    /\ call.fn = "validate_environment_config"
    /\ call.arg.env_name = "prod"
    /\ call.arg.networking.max_azs = 2
    /\ AzFinding \in Range(call.result)
    /\ Len(call.result) = 1

\* C6: for an identifier outside {dev, staging, prod} get_environment_config
\* returns no configuration and fails with an error naming all valid
\* identifiers, and main ends without validating or creating anything.
C6_UnknownEnvironmentEndsRun ==
    (env_name # None /\ env_name[1] \notin {"dev", "staging", "prod"})
        => /\ env_config = None
           /\ validation_errors = None
           /\ ~StackStarted
           /\ pc = "exited"
           /\ exit_code = Some(1)
           /\ stdout = << "[x] Invalid environment configuration: Unsupported environment: "
                          \o env_name[1]
                          \o ". Supported environments: ['dev', 'staging', 'prod']" >>

C6_Witness ==
    /\ env_name = Some("qa")
    /\ env_config = None
    /\ pc = "exited"
    /\ exit_code = Some(1)

\* C7 as stated: whenever get_environment_config is called without an
\* identifier, "dev" is substituted and the dev configuration is returned.
C7_NoArgumentMeansDev ==
    (call.fn = "get_environment_config" /\ call.arg = None)
        => /\ call.result.raises = "none"
           /\ call.result.config = Some(_get_dev_config(environ))

\* C7: when get_environment_config is called without an identifier, the
\* value of CDK_ENVIRONMENT is the identifier if the variable is set, and
\* only if it is unset is "dev" substituted and the dev configuration
\* returned.
C7_DefaultsToDev ==
    (call.fn = "get_environment_config" /\ call.arg = None)
        => IF environ["CDK_ENVIRONMENT"] = None
           THEN /\ call.result.raises = "none"
                /\ call.result.config = Some(_get_dev_config(environ))
                /\ call.result.config[1].env_name = "dev"
           ELSE IF environ["CDK_ENVIRONMENT"][1] \in {"dev", "staging", "prod"}
                THEN /\ call.result.raises = "none"
                     /\ call.result.config[1].env_name = environ["CDK_ENVIRONMENT"][1]
                ELSE /\ call.result.raises = "ValueError"
                     /\ call.result.config = None

C7_Witness ==
    /\ call.fn = "get_environment_config"
    /\ call.arg = None
    /\ environ["CDK_ENVIRONMENT"] = None
    /\ call.result.config # None
    /\ call.result.config[1].env_name = "dev"

\* the module a construction step of the comprehensive stack builds
C8_ModuleOf(step) ==
    CASE step = "_create_vpc_infrastructure" -> "Networking"
      [] step = "_create_security_infrastructure" -> "Security"
      [] step = "_create_iam_infrastructure" -> "Identity"
      [] step = "_create_monitoring_infrastructure" -> "Monitoring"
      [] step = "_create_configuration_infrastructure" -> "Configuration"
      [] OTHER -> "none"

C8_Created ==
    LET IsModule(step) == C8_ModuleOf(step) # "none"
        steps == SelectSeq(stack.log, IsModule)
    IN  [i \in 1..Len(steps) |-> C8_ModuleOf(steps[i])]

C8_Position(m) == CHOOSE i \in 1..Len(C8_Created) : C8_Created[i] = m

C8_Dependencies == { <<"Security", "Networking">>, <<"Configuration", "Networking">>,
                     <<"Configuration", "Identity">>, <<"Monitoring", "Networking">> }

C9_Written(name) ==
    \E i \in 1..Len(ssm) :
        ssm[i].path = get_parameter_store_prefix(env_config[1]) \o "/" \o name

\* C9: no (stack, name) pair is stored twice, a second write of a pair
\* failing with DuplicateOutputError; and a read by name of a parameter that
\* was never written fails with MissingOutputError.
C9_DuplicateWriteAndMissingReadFail ==
    /\ Cardinality({<<ssm[i].stack, ssm[i].name>> : i \in 1..Len(ssm)}) = Len(ssm)
    /\ (call.fn = "get_parameter_arn" /\ ~C9_Written(call.arg[1]))
          => call.result.raises = "MissingOutputError"

\* C10: in one synthesis run for one environment the parameter_name values
\* of all parameters created, by the comprehensive stack or by the modular
\* stacks together, are pairwise distinct.
C10_ParameterPathsDistinct ==
    Cardinality({ssm[i].path : i \in 1..Len(ssm)}) = Len(ssm)

C10_Witness ==
    /\ pc = "compose"
    /\ {"Networking", "Security", "Configuration", "Monitoring"} \subseteq ModuleNames
    /\ "cache_ttl" \in DictKeySet(env_config[1].feature_flags)
    /\ "cache_ttl" \in DictKeySet(env_config[1].custom_parameters)
    /\ Len(ssm) = 6 + 6 + 3 + 7 + 19 + 7 + 2 + 3

C12_IsPrefix(s, t) == Len(s) <= Len(t) /\ s = SubSeq(t, 1, Len(s))

C13_Table(e) ==
    CASE e = "dev" -> {<<"Criticality", "Low">>, <<"BackupRequired", "False">>,
                       <<"AutoShutdown", "True">>}
      [] e = "staging" -> {<<"Criticality", "Medium">>, <<"BackupRequired", "False">>}
      [] e = "prod" -> {<<"Criticality", "High">>, <<"BackupRequired", "True">>}

C13_EnvironmentKeys == {"Criticality", "BackupRequired", "AutoShutdown"}

\* the environment-derived tags the VPC of a NetworkingStack carries
C13_Derived(m) ==
    {t \in Range(m.resources[1].tags) : t[1] \in C13_EnvironmentKeys}

\* C13: the environment-derived tags of the VPC are those of the fixed
\* table for the environment name (dev: Criticality=Low, AutoShutdown=True;
\* staging: Criticality=Medium, BackupRequired=False; prod: Criticality=High,
\* BackupRequired=True) and nothing else, whatever the rest of the
\* configuration is.
C13_EnvironmentTagsFollowTable ==
    \A i \in 1..Len(modules) :
        modules[i].name = "Networking"
            => C13_Derived(modules[i]) = C13_Table(env_name[1])

C13_Witness ==
    /\ env_name = Some("staging")
    /\ \E i \in 1..Len(modules) :
          /\ modules[i].name = "Networking"
          /\ <<"Criticality", "Medium">> \in C13_Derived(modules[i])

\* the tag sets carried by the groups of resources created so far: one per
\* group of each modular stack, and the comprehensive stack's once it has
\* applied its tags
C14_TagSets ==
    UNION { { Range(modules[i].resources[j].tags) :
                j \in 1..Len(modules[i].resources) } : i \in 1..Len(modules) }
    \cup (IF "_apply_standard_tags" \in Range(stack.log)
          THEN {Range(stack.tags)} ELSE {})

\* C14: every group of resources of every module carries the same tag set,
\* the configuration's resource tags together with the environment-derived
\* Criticality and BackupRequired tags: no two groups differ in the value of
\* a key, and none lacks a tag another carries.
C14_SameTagsEverywhere ==
    \A tags \in C14_TagSets :
        /\ \A other \in C14_TagSets : tags = other
        /\ Range(env_config[1].resource_tags) \subseteq tags
        /\ {"Criticality", "BackupRequired"} \subseteq {t[1] : t \in tags}

\* a fatal condition has occurred: the environment is unknown, validation
\* returned findings, or an exception or an interrupt was raised
C15_Fatal ==
    \/ env_name # None /\ env_name[1] \notin EnvironmentIds
    \/ validation_errors # None /\ validation_errors[1] # <<>>
    \/ raised # "none"

\* C15: every fatal condition ends the run with a non-zero exit code, and
\* app.synth() is not reached in that run, neither then nor later; a run
\* reaches app.synth() only if no fatal condition occurred.
C15_FatalEndsRunBeforeSynth ==
    /\ [](C15_Fatal => /\ pc = "exited"
                       /\ exit_code # None
                       /\ exit_code[1] # 0)
    /\ [](pc = "done" => ~C15_Fatal /\ exit_code = Some(0))
    /\ [][pc = "exited" => pc' = "exited"]_vars

C15_Witness ==
    /\ pc = "exited"
    /\ raised = "KeyboardInterrupt"
    /\ "_create_iam_infrastructure" \in Range(stack.log)
    /\ exit_code = Some(1)

\* a printed line that reports one finding
C16_IsFindingLine(line) == Len(line) >= 5 /\ SubSeq(line, 1, 5) = "   - "

\* the findings reported on standard output, in the order printed
C16_Reported ==
    LET lines == SelectSeq(stdout, C16_IsFindingLine)
    IN  [i \in 1..Len(lines) |-> SubSeq(lines[i], 6, Len(lines[i]))]

\* C16: when validation returns findings, the run has terminated only after
\* printing every finding, in the order the validator returned them.
C16_EveryFindingReported ==
    (pc = "exited" /\ env_config # None /\ raised = "SystemExit")
        => /\ validate_environment_config(env_config[1]) # <<>>
           /\ C16_Reported = validate_environment_config(env_config[1])

C16_Witness ==
    /\ pc = "exited"
    /\ raised = "SystemExit"
    /\ validation_errors # None
    /\ Len(validation_errors[1]) = 3
    /\ Len(C16_Reported) = 3

\* C17: once the configuration object exists it is the one
\* get_environment_config returned, and neither validation nor the
\* construction of a stack changes any of its fields.
C17_ConfigNeverChanges ==
    /\ [](env_config # None
            => env_config = get_environment_config(registry, env_name, environ).config)
    /\ [][env_config # None => env_config' = env_config]_vars

C17_Witness ==
    /\ pc = "done"
    /\ stack.made
    /\ "_create_configuration_infrastructure" \in Range(stack.log)
    /\ env_config = get_environment_config(registry, env_name, environ).config

\* the sub-namespaces the stacks write their own outputs under, and the
\* stack that owns each
C18_Owner == << <<"networking", "Networking">>,
                <<"security", "Security">>,
                <<"monitoring", "Monitoring">> >>

\* path lies in sub-namespace ns of environment e
C18_Under(path, e, ns) ==
    LET prefix == "/options-strategy/" \o e \o "/" \o ns \o "/"
    IN  Len(path) > Len(prefix) /\ SubSeq(path, 1, Len(prefix)) = prefix

\* C18: a parameter whose path lies in the networking, security or
\* monitoring sub-namespace was written by the stack that owns that
\* sub-namespace; in particular the Configuration stack writes none there.
C18_WritesOnlyOwnNamespace ==
    \A i \in 1..Len(ssm) : \A k \in 1..Len(C18_Owner) :
        C18_Under(ssm[i].path, env_name[1], C18_Owner[k][1])
            => ssm[i].stack = C18_Owner[k][2]

\* path has the shape /options-strategy/e/<logical-path>, the logical path
\* not empty
C19_HasShape(path, e) ==
    LET prefix == "/options-strategy/" \o e \o "/"
    IN  Len(path) > Len(prefix) /\ SubSeq(path, 1, Len(prefix)) = prefix

\* C19: every parameter path written in a run for environment e has the
\* shape /options-strategy/e/<logical-path>, and none has that shape for
\* another environment, so that runs for two environments write disjoint
\* sets of paths.
C19_PathsCarryEnvironment ==
    \A i \in 1..Len(ssm) :
        /\ C19_HasShape(ssm[i].path, env_name[1])
        /\ \A other \in EnvironmentIds \ {env_name[1]} :
              ~C19_HasShape(ssm[i].path, other)

C19_Witness ==
    /\ pc = "compose"
    /\ env_name = Some("staging")
    /\ {"Networking", "Configuration", "Monitoring"} \subseteq ModuleNames
    /\ \E i \in 1..Len(ssm) :
          ssm[i].path = "/options-strategy/staging/custom/cache_ttl"

\* how many times a finding occurs in a list of findings
C20_Count(errors, finding) ==
    Cardinality({i \in 1..Len(errors) : errors[i] = finding})

\* C20: the WAF, deletion-protection and log-retention findings are each
\* returned, once, exactly when the environment is prod and the rule is
\* violated (log retention below 90 days; 90 passes), whatever the other
\* rules say; a dev or staging configuration gets none of the findings
\* that are conditional on prod.
C20_ProdFindingsExactlyWhenViolated ==
    call.fn = "validate_environment_config"
        => LET c == call.arg
               prod == c.env_name = "prod"
               Returned(finding) == C20_Count(call.result, finding) = 1
               Absent(finding) == C20_Count(call.result, finding) = 0
           IN  /\ IF prod /\ ~c.security.enable_waf
                  THEN Returned(WafFinding) ELSE Absent(WafFinding)
               /\ IF prod /\ ~c.compliance.enable_deletion_protection
                  THEN Returned(DeletionProtectionFinding)
                  ELSE Absent(DeletionProtectionFinding)
               /\ IF prod /\ c.monitoring.log_retention_days < 90
                  THEN Returned(LogRetentionFinding)
                  ELSE Absent(LogRetentionFinding)
               /\ ~prod => /\ Absent(AzFinding)
                           /\ Absent(LambdaMemoryFinding)

C20_Witness ==
    /\ call.fn = "validate_environment_config"
    /\ call.arg.env_name = "prod"
    /\ ~call.arg.security.enable_waf
    /\ call.arg.compliance.enable_deletion_protection
    /\ call.arg.monitoring.log_retention_days = 90
    /\ C20_Count(call.result, WafFinding) = 1
    /\ C20_Count(call.result, DeletionProtectionFinding) = 0
    /\ C20_Count(call.result, LogRetentionFinding) = 0

\* C21 as stated: for a prod configuration validate_environment_config
\* returns exactly one memory-sizing finding when the Lambda memory size does
\* not exceed 1024 MB, and none when it exceeds 1024 MB.
C21_FindingUnlessAboveFloor ==
    (call.fn = "validate_environment_config" /\ call.arg.env_name = "prod")
        => C20_Count(call.result, LambdaMemoryFinding)
              = IF call.arg.resources.lambda_memory_size <= 1024 THEN 1 ELSE 0

\* C21 amended: for a prod configuration validate_environment_config returns
\* exactly one memory-sizing finding when the Lambda memory size is below
\* 1024 MB, and none when it is 1024 MB or more.
C21_FindingBelowFloor ==
    (call.fn = "validate_environment_config" /\ call.arg.env_name = "prod")
        => C20_Count(call.result, LambdaMemoryFinding)
              = IF call.arg.resources.lambda_memory_size < 1024 THEN 1 ELSE 0

C21_Witness ==
    /\ call.fn = "validate_environment_config"
    /\ call.arg.env_name = "prod"
    /\ call.arg.resources.lambda_memory_size = 1024
    /\ C20_Count(call.result, LambdaMemoryFinding) = 0

\* C22: in every run, through app.py or simple_app.py, the stack is created
\* in the compliance-mandated region ap-south-1.
C22_StackRegionIsMandated ==
    stack.made => stack.env[1].region = "ap-south-1"

\* the attributes assigned before step i of a log of steps runs
C23_AssignedBefore(log, i, initial, Assigns(_)) ==
    initial \cup UNION {Assigns(log[j]) : j \in 1..(i - 1)}

\* C23: in the construction of the comprehensive stack and of the
\* Monitoring stack, every attribute a step reads was assigned by
\* __init__'s own assignments or by a strictly earlier step, and no step
\* fails on an attribute that was never assigned.
C23_ReadsOnlyAssignedAttributes ==
    /\ raised # "AttributeError"
    /\ \A i \in 1..Len(stack.log) :
          StepReads(stack.log[i])
              \subseteq C23_AssignedBefore(stack.log, i, {"env_config", "env_name"},
                                          StepAssigns)
    /\ \A m \in 1..Len(modules) : \A i \in 1..Len(modules[m].log) :
          MonitoringStepReads(modules[m].log[i])
              \subseteq C23_AssignedBefore(modules[m].log, i, MonitoringInitAttrs,
                                          MonitoringStepAssigns)

C23_Witness ==
    /\ pc = "compose"
    /\ \E m \in 1..Len(modules) :
          /\ modules[m].name = "Monitoring"
          /\ modules[m].log = MonitoringSteps

\* the configuration a client sees through the result of its j-th call
C24_Seen(c, j) == c.result.heap[c.result.returned[j]]

\* C24: get_environment_config leaves the environment table as it was, the
\* result of each call is a configuration of its own, and a change a client
\* makes to one result leaves every other result as it was.
C24_ResultsAreIndependent ==
    [][/\ registry' = registry
       /\ call'.fn = "get_environment_config"
             => /\ call'.result.returned[Len(call'.result.returned)]
                      \notin Range(call.result.returned)
                /\ \A j \in 1..Len(call.result.returned) :
                      C24_Seen(call', j) = C24_Seen(call, j)
       /\ call'.fn = "modify"
             => \A j \in 1..Len(call.result.returned) :
                   j # call'.arg[1] => C24_Seen(call', j) = C24_Seen(call, j)]_vars

C24_Witness ==
    /\ pc = "clients"
    /\ call.fn = "modify"
    /\ Len(call.result.returned) = 2
    /\ C24_Seen(call, 1).env_name = "prod"
    /\ C24_Seen(call, 2).env_name = "prod"
    /\ C24_Seen(call, 1) # C24_Seen(call, 2)

\* the values of the parameters written at path
C25_ValuesAt(path) == [i \in {k \in 1..Len(ssm) : ssm[k].path = path} |-> ssm[i].value]

\* the parameters written under prefix
C25_WrittenUnder(prefix) ==
    {i \in 1..Len(ssm) :
        Len(ssm[i].path) > Len(prefix) /\ SubSeq(ssm[i].path, 1, Len(prefix)) = prefix}

\* C25: the Configuration stack writes, for every feature flag k, exactly
\* one parameter at <prefix>/features/k, with value "true" or "false" as the
\* flag is, and for every custom parameter k exactly one parameter at
\* <prefix>/custom/k with the configured string; it writes nothing else
\* under features/ or custom/.
C25_FlagsAndCustomParametersWritten ==
    Built("Configuration")
        => LET config == env_config[1]
               prefix == "/options-strategy/" \o config.env_name
               flags == config.feature_flags
               custom == config.custom_parameters
           IN  /\ \A k \in 1..Len(flags) :
                     LET values == C25_ValuesAt(prefix \o "/features/" \o flags[k][1])
                     IN  /\ Cardinality(DOMAIN values) = 1
                         /\ \A i \in DOMAIN values :
                               values[i] = IF flags[k][2] THEN "true" ELSE "false"
               /\ Cardinality(C25_WrittenUnder(prefix \o "/features/")) = Len(flags)
               /\ \A k \in 1..Len(custom) :
                     LET values == C25_ValuesAt(prefix \o "/custom/" \o custom[k][1])
                     IN  /\ Cardinality(DOMAIN values) = 1
                         /\ \A i \in DOMAIN values : values[i] = custom[k][2]
               /\ Cardinality(C25_WrittenUnder(prefix \o "/custom/")) = Len(custom)

C25_Witness ==
    /\ Built("Configuration")
    /\ \E i \in 1..Len(ssm) :
          /\ ssm[i].path = "/options-strategy/dev/features/vpc/cidr"
          /\ ssm[i].value = "false"
    /\ \E i \in 1..Len(ssm) :
          /\ ssm[i].path = "/options-strategy/dev/custom/vpc/cidr"
          /\ ssm[i].value = "10.9.0.0/16"

\* the names of the groups SecurityStack creates
C26_Created == {"alb", "app", "db", "cache", "management", "internal"}

\* the construct id of the group created under a name
C26_GroupId(name) ==
    CASE name = "alb" -> "ALBSecurityGroup"
      [] name = "app" -> "AppSecurityGroup"
      [] name = "db" -> "DatabaseSecurityGroup"
      [] name = "cache" -> "CacheSecurityGroup"
      [] name = "management" -> "ManagementSecurityGroup"
      [] name = "internal" -> "InternalSecurityGroup"

\* C26: get_security_group(name) returns the group created under name and
\* raises KeyError for every other name, and leaves the map of groups as it
\* was; add_ingress_rule_to_group with an unknown name fails with KeyError
\* and adds no rule to any group.
C26_UnknownGroupRaisesKeyError ==
    /\ [](call.fn = "get_security_group"
            => IF call.arg[1] \in C26_Created
               THEN /\ call.result.raises = "none"
                    /\ call.result.value = Some(C26_GroupId(call.arg[1]))
               ELSE /\ call.result.raises = "KeyError"
                    /\ call.result.value = None)
    /\ [](call.fn = "add_ingress_rule_to_group"
            => (call.result.raises = "KeyError" <=> call.arg[1] \notin C26_Created))
    /\ [][/\ call'.fn = "get_security_group" => modules' = modules
          /\ (call'.fn = "add_ingress_rule_to_group"
                /\ call'.arg[1] \notin C26_Created) => modules' = modules]_vars

C26_Witness ==
    /\ call.fn = "add_ingress_rule_to_group"
    /\ call.arg = Some("lambda")
    /\ call.result.raises = "KeyError"
    /\ security_groups = _create_security_groups

\* C27: with the registry as shipped, each of dev, staging and prod is
\* validated with no findings, so a run of main whose environment identifier
\* is one of the three leaves validate_and_get_config at
\* print_deployment_info with the preset as its configuration, and never
\* ends with the SystemExit of the validation gate.
C27_Shipped == registry = _ENVIRONMENT_CONFIGS(environ)

C27_ShippedPresetsPassTheGate ==
    /\ [](\A i \in 1..Len(registry) :
            C27_Shipped => validate_environment_config(registry[i][2]) = <<>>)
    /\ []((C27_Shipped /\ env_name # None
              /\ env_name[1] \in {"dev", "staging", "prod"})
            => /\ validation_errors = Some(<<>>)
               /\ env_config = Some(DictGet(registry, env_name[1]))
               /\ raised # "SystemExit")
    /\ [][(C27_Shipped /\ pc = "start" /\ env_name' # None
              /\ env_name'[1] \in {"dev", "staging", "prod"})
            => pc' = "print_deployment_info"]_vars

C27_Witness ==
    /\ C27_Shipped
    /\ env_name = Some("staging")
    /\ validation_errors = Some(<<>>)
    /\ stack.made
    /\ pc = "done"

\* C28 as stated: every log group the stack of a main run has created is
\* retained for at least monitoring.log_retention_days of the run's
\* configuration (90 days or more in a prod run).
C28_LogGroupsKeptAsConfigured ==
    \A i \in 1..Len(stack.log_group_constructs) :
        /\ env_config # None
        /\ stack.log_group_constructs[i].retention
              >= env_config[1].monitoring.log_retention_days

\* C29 as stated: the construct ids a stack derives from its parameter
\* names, feature-flag keys and custom-parameter keys are pairwise distinct
\* (the keys of each mapping are distinct), so no stack constructor ends
\* with the RuntimeError of a duplicate construct id.
C29_ConstructIdsDistinct ==
    /\ env_config # None
          => /\ ~HasDuplicate(ConfigurationParameterIds(env_config[1]))
             /\ ~HasDuplicate([i \in 1..Len(infrastructure_params(env_config[1])) |->
                    PlatformParameterId(infrastructure_params(env_config[1])[i][1])])
    /\ raised # "RuntimeError"

\* C30: a constructed EnvironmentConfig has the seven default tags, with
\* Environment = env_name and Region = aws_region, when no tag was supplied,
\* and the seven default flags when no flag was supplied; a supplied
\* non-empty mapping is the configuration's mapping, entry for entry, and a
\* mapping is replaced by a different one only when it was supplied empty.
C30_DefaultTagKeys ==
    <<"Project", "Environment", "Owner", "CostCenter", "DataResidency", "ManagedBy",
      "Region">>

C30_DefaultFlagKeys ==
    <<"enable_api_caching", "enable_multi_az", "enable_auto_scaling",
      "enable_blue_green_deployment", "enable_canary_deployment",
      "enable_circuit_breaker", "enable_rate_limiting">>

C30_DefaultsOnlyForEmptyMappings ==
    call.fn = "EnvironmentConfig" =>
        LET supplied == call.arg[1]
            config == call.result
        IN  /\ supplied.resource_tags = <<>>
                  => /\ DictKeys(config.resource_tags) = C30_DefaultTagKeys
                     /\ DictGet(config.resource_tags, "Environment") = supplied.env_name
                     /\ DictGet(config.resource_tags, "Region") = supplied.aws_region
                     /\ DictGet(config.resource_tags, "Project")
                            = "OptionsStrategyPlatform"
            /\ supplied.resource_tags # <<>>
                  => config.resource_tags = supplied.resource_tags
            /\ supplied.feature_flags = <<>>
                  => /\ DictKeys(config.feature_flags) = C30_DefaultFlagKeys
                     /\ DictGet(config.feature_flags, "enable_multi_az")
                            = (supplied.env_name = "prod")
                     /\ DictGet(config.feature_flags, "enable_rate_limiting")
            /\ supplied.feature_flags # <<>>
                  => config.feature_flags = supplied.feature_flags
            /\ config.resource_tags # supplied.resource_tags
                  <=> supplied.resource_tags = <<>>
            /\ config.feature_flags # supplied.feature_flags
                  <=> supplied.feature_flags = <<>>

C30_Witness ==
    /\ call.fn = "EnvironmentConfig"
    /\ call.arg[1].resource_tags = << <<"Owner", "client">> >>
    /\ call.arg[1].feature_flags = <<>>
    /\ call.arg[1].env_name = "staging"
    /\ call.result.resource_tags = << <<"Owner", "client">> >>
    /\ Len(call.result.feature_flags) = 7

====
